---- MODULE Spec2Model ----
(***************************************************************************)
(* lazy-todo: the list view, the kanban view and the task collection they  *)
(* display.  Positions are 0-based as in the Go code; sequences are TLA+   *)
(* sequences, so position i of a slice s is s[i + 1].                      *)
(***************************************************************************)
EXTENDS Integers, Sequences, FiniteSets

\* ------------------------------------------------------------------ bounds
\* longest task collection a repository result carries
MaxTasks == 3
\* longest search text typed into the filter
MaxFilterLen == 1
\* most tasks in the file the application starts on
MaxStored == 1
\* most commands and messages in flight at a time
MaxInFlight == 1
\* most characters the title, description, tag and search inputs take (the
\* CharLimit of the input)
MaxInputLen == 1
\* most characters the tags input of the form takes (its CharLimit)
MaxTagsLen == 3
\* most tasks in the file the repository alone is called on
MaxRepoLen == 2
\* how many different times time.Now() answers in the calls of the repository
MaxClock == 1

\* ------------------------------------------------------------- model types
StatusTodo == "todo"
StatusInProgress == "in_progress"
StatusBlocked == "blocked"
StatusDone == "done"

PriorityLow == "low"
PriorityMedium == "medium"
PriorityHigh == "high"
PriorityCritical == "critical"

ViewList == "ViewList"
ViewKanban == "ViewKanban"

GroupByNone == "GroupByNone"
GroupByStatus == "GroupByStatus"
GroupByPriority == "GroupByPriority"
GroupByTag == "GroupByTag"

AllStatuses == <<StatusTodo, StatusInProgress, StatusBlocked, StatusDone>>

AllPriorities == <<PriorityLow, PriorityMedium, PriorityHigh, PriorityCritical>>

AllGroupBy == <<GroupByNone, GroupByStatus, GroupByPriority, GroupByTag>>

\* Go strings are modelled as sequences of one-character strings.
PriorityLabel(p) ==
    CASE p = PriorityLow -> <<"B", "a", "s", "s", "e">>
      [] p = PriorityMedium -> <<"M", "o", "y", "e", "n", "n", "e">>
      [] p = PriorityHigh -> <<"H", "a", "u", "t", "e">>
      [] p = PriorityCritical -> <<"C", "r", "i", "t", "i", "q", "u", "e">>

StatusLabel(s) ==
    CASE s = StatusTodo -> <<"À", " ", "f", "a", "i", "r", "e">>
      [] s = StatusInProgress -> <<"E", "n", " ", "c", "o", "u", "r", "s">>
      [] s = StatusBlocked -> <<"B", "l", "o", "q", "u", "é">>
      [] s = StatusDone -> <<"T", "e", "r", "m", "i", "n", "é">>

\* Status.Index that answers 0 for every status
StatusIndex_Zero(s) == 0

StatusIndex(s) ==
    CASE s = StatusTodo -> 0
      [] s = StatusInProgress -> 1
      [] s = StatusBlocked -> 2
      [] s = StatusDone -> 3
      [] OTHER -> 0

GroupByNext(g) ==
    CASE g = GroupByNone -> GroupByStatus
      [] g = GroupByStatus -> GroupByPriority
      [] g = GroupByPriority -> GroupByTag
      [] g = GroupByTag -> GroupByNone
      [] OTHER -> GroupByNone

\* ------------------------------------------------------------ Go strings
UpperToLower ==
    [c \in {"A", "B", "C", "S", "X"} |->
        CASE c = "A" -> "a" [] c = "B" -> "b" [] c = "C" -> "c"
          [] c = "S" -> "s" [] c = "X" -> "x"]

\* strings.ToLower
ToLower(s) ==
    [i \in 1..Len(s) |-> IF s[i] \in DOMAIN UpperToLower THEN UpperToLower[s[i]] ELSE s[i]]

\* strings.Contains
Contains(s, substr) ==
    \E i \in 0..(Len(s) - Len(substr)) : SubSeq(s, i + 1, i + Len(substr)) = substr

\* itoa of kanban.go, for the non-negative counts the headers carry
RECURSIVE itoaDigits(_)
itoaDigits(i) ==
    IF i = 0 THEN <<>>
    ELSE itoaDigits(i \div 10) \o <<<<"0", "1", "2", "3", "4", "5", "6", "7", "8", "9">>[(i % 10) + 1]>>

itoa(i) == IF i = 0 THEN <<"0">> ELSE itoaDigits(i)

\* strings.TrimSpace, for the one white-space character the inputs take
RECURSIVE TrimLeft(_)
TrimLeft(s) == IF s # <<>> /\ Head(s) = " " THEN TrimLeft(Tail(s)) ELSE s

RECURSIVE TrimRight(_)
TrimRight(s) ==
    IF s # <<>> /\ s[Len(s)] = " " THEN TrimRight(SubSeq(s, 1, Len(s) - 1)) ELSE s

TrimSpace(s) == TrimRight(TrimLeft(s))

\* strings.Split(s, ","): the pieces between the commas, empty ones included
RECURSIVE SplitComma(_, _, _)
SplitComma(s, piece, acc) ==
    IF s = <<>> THEN Append(acc, piece)
    ELSE IF Head(s) = "," THEN SplitComma(Tail(s), <<>>, Append(acc, piece))
         ELSE SplitComma(Tail(s), Append(piece, Head(s)), acc)

Split(s) == SplitComma(s, <<>>, <<>>)

\* strings.Join(elems, ", ")
RECURSIVE Join(_)
Join(elems) ==
    IF elems = <<>> THEN <<>>
    ELSE IF Len(elems) = 1 THEN elems[1]
         ELSE elems[1] \o <<",", " ">> \o Join(Tail(elems))

\* ------------------------------------------------------------ task inputs
\* the key organizeItems gives to a task that has no tag
SansTag == <<"S", "a", "n", "s", " ", "t", "a", "g">>

\* The tasks a repository result is built from: model.Task without its
\* timestamps.  Identifiers are unique, titles are non-empty, priority and
\* status are members of the closed sets, tags are non-empty and unique
\* within a task.
TaskPool ==
    { [id |-> 1, title |-> <<"A">>, description |-> <<>>,
       priority |-> PriorityMedium, status |-> StatusDone, tags |-> <<>>],
      [id |-> 2, title |-> <<"b">>, description |-> <<"c", "A">>,
       priority |-> PriorityHigh, status |-> StatusTodo, tags |-> << <<"x">> >>],
      [id |-> 3, title |-> <<"c">>, description |-> <<>>,
       priority |-> PriorityLow, status |-> StatusTodo, tags |-> << SansTag, <<"x">> >>],
      [id |-> 4, title |-> <<"c">>, description |-> <<>>,
       priority |-> PriorityHigh, status |-> StatusBlocked, tags |-> << <<"x">>, <<"y">> >>] }

\* ts without its element at position i (0-based)
RemoveAt(ts, i) == SubSeq(ts, 1, i) \o SubSeq(ts, i + 2, Len(ts))

\* The collections the next repository result can carry when the views hold
\* ts: the same collection (Load, refresh key), one more task at the end
\* (AddTask), one task less (DeleteTask), or nothing (the file is gone).
\* Identifiers stay unique.
RepositoryResults(ts) ==
    {ts, <<>>}
      \cup { Append(ts, t) : t \in { u \in TaskPool : Len(ts) < MaxTasks
                                       /\ \A i \in 1..Len(ts) : ts[i].id # u.id } }
      \cup { RemoveAt(ts, i) : i \in 0..(Len(ts) - 1) }

FilterChars == {"a", "A"}

\* the search texts the search input can hold
FilterTexts == UNION { [1..n -> FilterChars] : n \in 0..MaxFilterLen }

\* ------------------------------------------------------------------ state
VARIABLES
    tasks,      \* App.tasks
    ltasks,     \* ListView.tasks
    lfilter,    \* ListView.filter
    lfiltered,  \* ListView.filtered: indices into ltasks
    lgroupBy,   \* ListView.groupBy
    litems,     \* ListView.items
    lcursor,    \* ListView.cursor
    ktasks,     \* KanbanView.tasks
    kcolumns,   \* KanbanView.columns: 0..3 -> [status, tasks, items, cursor]
    activeCol,  \* KanbanView.activeCol
    kgroupBy,   \* KanbanView.groupBy
    viewMode,   \* App.viewMode
    state,      \* App.state
    file,       \* the task collection stored in the YAML file
    cmds,       \* the commands returned by Update that have not run yet
    inbox,      \* the messages of the commands that ran, not yet handled by Update
    message,    \* App.message
    quit,       \* tea.Quit was returned: the program ends
    taskForm,   \* App.taskForm
    tagInput,   \* the value of App.tagInput
    searchInput \* the value of App.searchInput

\* the fields of the App besides its task collection, its views and viewMode,
\* and the world around it (file, commands and messages in flight)
appVars == <<state, file, cmds, inbox, message, quit, taskForm, tagInput, searchInput>>

vars == <<tasks, ltasks, lfilter, lfiltered, lgroupBy, litems, lcursor,
          ktasks, kcolumns, activeCol, kgroupBy, viewMode, appVars>>

listVars == <<ltasks, lfilter, lfiltered, lgroupBy, litems, lcursor>>

kanbanVars == <<ktasks, kcolumns, activeCol, kgroupBy>>

\* ListItem / KanbanItem
HeaderItem(text) == [isHeader |-> TRUE, headerText |-> text, taskIndex |-> 0]

TaskItem(idx) == [isHeader |-> FALSE, headerText |-> <<>>, taskIndex |-> idx]

\* ------------------------------------------------------- selection cursor
\* "for cursor < len(items) && items[cursor].isHeader { cursor++ }"
RECURSIVE skipHeadersForward(_, _)
skipHeadersForward(items, cursor) ==
    IF cursor < Len(items) /\ items[cursor + 1].isHeader
    THEN skipHeadersForward(items, cursor + 1)
    ELSE cursor

\* "for cursor = len(items) - 1; cursor >= 0; cursor-- { if !isHeader { break } }"
RECURSIVE lastTaskBackward(_, _)
lastTaskBackward(items, cursor) ==
    IF cursor >= 0 /\ items[cursor + 1].isHeader
    THEN lastTaskBackward(items, cursor - 1)
    ELSE cursor

\* "for cursor > 0 && items[cursor].isHeader { cursor-- }"
RECURSIVE skipHeadersBackward(_, _)
skipHeadersBackward(items, cursor) ==
    IF cursor > 0 /\ items[cursor + 1].isHeader
    THEN skipHeadersBackward(items, cursor - 1)
    ELSE cursor

\* adjustCursor that clamps the cursor but does not step off a header
adjustCursor_NoHeaderSkip(items, cursor) ==
    IF Len(items) = 0 THEN 0
    ELSE IF cursor >= Len(items) THEN Len(items) - 1 ELSE cursor

\* ListView.adjustCursor
adjustCursor(items, cursor) ==
    IF Len(items) = 0 THEN 0
    ELSE LET c1 == IF cursor >= Len(items) THEN Len(items) - 1 ELSE cursor
             c2 == skipHeadersForward(items, c1)
             c3 == IF c2 >= Len(items) THEN lastTaskBackward(items, Len(items) - 1) ELSE c2
         IN  IF c3 < 0 THEN 0 ELSE c3

\* ListView.MoveUp: the new cursor
ListMoveUpCursor(items, cursor) ==
    IF cursor > 0
    THEN LET c1 == skipHeadersBackward(items, cursor - 1)
         IN  IF c1 >= 0 /\ c1 < Len(items) /\ items[c1 + 1].isHeader
             THEN skipHeadersForward(items, c1)
             ELSE c1
    ELSE cursor

\* MoveDown that steps one position and does not skip headers
ListMoveDownCursor_NoHeaderSkip(items, cursor) ==
    IF cursor < Len(items) - 1 THEN cursor + 1 ELSE cursor

\* ListView.MoveDown: the new cursor
ListMoveDownCursor(items, cursor) ==
    IF cursor < Len(items) - 1
    THEN LET c1 == skipHeadersForward(items, cursor + 1)
         IN  IF c1 >= Len(items) THEN lastTaskBackward(items, Len(items) - 1) ELSE c1
    ELSE cursor

\* adjustColumnCursor that puts the cursor back on the first task item
adjustColumnCursor_ResetToFirst(items, cursor) ==
    IF Len(items) = 0 THEN 0 ELSE skipHeadersForward(items, 0)

\* KanbanView.adjustColumnCursor: the new cursor of the column
adjustColumnCursor(items, cursor) ==
    IF Len(items) = 0 THEN 0
    ELSE LET c1 == IF cursor >= Len(items) THEN Len(items) - 1 ELSE cursor
             c2 == skipHeadersForward(items, c1)
             c3 == IF c2 >= Len(items) THEN lastTaskBackward(items, Len(items) - 1) ELSE c2
         IN  IF c3 < 0 THEN 0 ELSE c3

\* KanbanView.MoveUp: the new cursor of the active column
KanbanMoveUpCursor(items, cursor) ==
    IF cursor > 0
    THEN LET c1 == skipHeadersBackward(items, cursor - 1)
         IN  IF c1 >= 0 /\ c1 < Len(items) /\ items[c1 + 1].isHeader
             THEN skipHeadersForward(items, c1)
             ELSE c1
    ELSE cursor

\* KanbanView.MoveDown: the new cursor of the active column
KanbanMoveDownCursor(items, cursor) ==
    IF cursor < Len(items) - 1
    THEN LET c1 == skipHeadersForward(items, cursor + 1)
         IN  IF c1 >= Len(items) THEN lastTaskBackward(items, Len(items) - 1) ELSE c1
    ELSE cursor

\* --------------------------------------------------------------- organizer
\* matchesFilter that looks at the title and the description only
matchesFilter_NoTags(task, filter) ==
    IF filter = <<>> THEN TRUE
    ELSE \/ Contains(ToLower(task.title), filter)
         \/ Contains(ToLower(task.description), filter)

\* ListView.matchesFilter; filter is the stored, lower-cased ListView.filter
matchesFilter(task, filter) ==
    IF filter = <<>> THEN TRUE
    ELSE \/ Contains(ToLower(task.title), filter)
         \/ Contains(ToLower(task.description), filter)
         \/ \E t \in 1..Len(task.tags) : Contains(ToLower(task.tags[t]), filter)

\* the ascending sequence of the positions 0..n-1
RECURSIVE Positions(_)
Positions(n) == IF n = 0 THEN <<>> ELSE Append(Positions(n - 1), n - 1)

\* ListView.applyFilter: the indices of the tasks that match, ascending
applyFilter(ts, filter) ==
    SelectSeq(Positions(Len(ts)), LAMBDA i : matchesFilter(ts[i + 1], filter))

\* the group key organizeItems computes for a task (the switch on groupBy)
listGroupKey(task, groupBy) ==
    CASE groupBy = GroupByStatus -> StatusLabel(task.status)
      [] groupBy = GroupByPriority -> PriorityLabel(task.priority)
      [] groupBy = GroupByTag -> IF Len(task.tags) > 0 THEN task.tags[1] ELSE SansTag
      [] OTHER -> <<>>

\* the group order with the exists test left out: every key is appended
firstSeenOrder_NoDedup(keys, order) == order \o keys

\* "if _, exists := groups[key]; !exists { groupOrder = append(groupOrder, key) }"
RECURSIVE firstSeenOrder(_, _)
firstSeenOrder(keys, order) ==
    IF keys = <<>> THEN order
    ELSE IF \E i \in 1..Len(order) : order[i] = Head(keys)
         THEN firstSeenOrder(Tail(keys), order)
         ELSE firstSeenOrder(Tail(keys), Append(order, Head(keys)))

\* the group order of the list with the sort by natural order left out
listGroupOrder_FirstSeen(keys, groupBy) == firstSeenOrder(keys, <<>>)

\* the order of the groups of the list: first seen, replaced by the enum
\* order restricted to the present groups for status and priority
listGroupOrder(keys, groupBy) ==
    LET exists(k) == \E i \in 1..Len(keys) : keys[i] = k
    IN  CASE groupBy = GroupByStatus ->
               SelectSeq([i \in 1..4 |-> StatusLabel(AllStatuses[i])], exists)
          [] groupBy = GroupByPriority ->
               SelectSeq([i \in 1..4 |-> PriorityLabel(AllPriorities[i])], exists)
          [] OTHER -> firstSeenOrder(keys, <<>>)

\* "Build items with headers" of ListView.organizeItems
RECURSIVE listBuildItems(_, _, _, _)
listBuildItems(order, indices, keys, acc) ==
    IF order = <<>> THEN acc
    ELSE LET groupKey == Head(order)
             taskIndices == SelectSeq(Positions(Len(indices)), LAMBDA n : keys[n + 1] = groupKey)
             header == HeaderItem(groupKey \o <<" ", "(">> \o itoa(Len(taskIndices)) \o <<")">>)
             members == [n \in 1..Len(taskIndices) |-> TaskItem(indices[taskIndices[n] + 1])]
         IN  listBuildItems(Tail(order), indices, keys, acc \o <<header>> \o members)

\* ListView.organizeItems: the items built from tasks, filtered and groupBy
organizeItems(ts, filtered, groupBy) ==
    IF groupBy = GroupByNone
    THEN [n \in 1..Len(filtered) |-> TaskItem(filtered[n])]
    ELSE LET keys == [n \in 1..Len(filtered) |-> listGroupKey(ts[filtered[n] + 1], groupBy)]
         IN  listBuildItems(listGroupOrder(keys, groupBy), filtered, keys, <<>>)

\* KanbanView.organizeTasks: the task indices of each column
organizeTasks(ts) ==
    [c \in 0..3 |->
        SelectSeq(Positions(Len(ts)),
                  LAMBDA i : LET colIdx == StatusIndex(ts[i + 1].status)
                             IN  colIdx >= 0 /\ colIdx < 4 /\ colIdx = c)]

\* the group key organizeColumnItems computes for a task
kanbanGroupKey(task, groupBy) ==
    CASE groupBy = GroupByPriority -> PriorityLabel(task.priority)
      [] groupBy = GroupByTag -> IF Len(task.tags) > 0 THEN task.tags[1] ELSE SansTag
      [] OTHER -> <<>>

\* the order of the groups of a column: first seen, enum order for priority
kanbanGroupOrder(keys, groupBy) ==
    LET exists(k) == \E i \in 1..Len(keys) : keys[i] = k
    IN  IF groupBy = GroupByPriority
        THEN SelectSeq([i \in 1..4 |-> PriorityLabel(AllPriorities[i])], exists)
        ELSE firstSeenOrder(keys, <<>>)

\* "Build items with headers" of KanbanView.organizeColumnItems
RECURSIVE kanbanBuildItems(_, _, _, _)
kanbanBuildItems(order, indices, keys, acc) ==
    IF order = <<>> THEN acc
    ELSE LET groupKey == Head(order)
             taskIndices == SelectSeq(Positions(Len(indices)), LAMBDA n : keys[n + 1] = groupKey)
             members == [n \in 1..Len(taskIndices) |-> TaskItem(indices[taskIndices[n] + 1])]
         IN  kanbanBuildItems(Tail(order), indices, keys, acc \o <<HeaderItem(groupKey)>> \o members)

\* organizeColumnItems that puts a status header on a column under GroupByStatus
organizeColumnItems_StatusHeader(ts, colTasks, groupBy) ==
    LET plain == [n \in 1..Len(colTasks) |-> TaskItem(colTasks[n])]
        keys == [n \in 1..Len(colTasks) |-> kanbanGroupKey(ts[colTasks[n] + 1], groupBy)]
    IN  CASE groupBy = GroupByNone -> plain
          [] groupBy = GroupByStatus ->
               IF Len(colTasks) = 0 THEN <<>>
               ELSE <<HeaderItem(StatusLabel(ts[colTasks[1] + 1].status))>> \o plain
          [] OTHER -> kanbanBuildItems(kanbanGroupOrder(keys, groupBy), colTasks, keys, <<>>)

\* KanbanView.organizeColumnItems: the items of one column
organizeColumnItems(ts, colTasks, groupBy) ==
    IF groupBy = GroupByNone \/ groupBy = GroupByStatus
    THEN [n \in 1..Len(colTasks) |-> TaskItem(colTasks[n])]
    ELSE LET keys == [n \in 1..Len(colTasks) |-> kanbanGroupKey(ts[colTasks[n] + 1], groupBy)]
         IN  kanbanBuildItems(kanbanGroupOrder(keys, groupBy), colTasks, keys, <<>>)

\* ----------------------------------------------------------- view queries
\* ListView.SelectedIndex: the index of the selected task, -1 for none
\* ListView.SelectedIndex that answers the place of the cursor in the items
ListSelectedIndex_Cursor ==
    IF Len(litems) = 0 THEN -1
    ELSE IF lcursor >= 0 /\ lcursor < Len(litems)
         THEN IF litems[lcursor + 1].isHeader THEN -1 ELSE lcursor
         ELSE -1

ListSelectedIndex ==
    IF Len(litems) = 0 THEN -1
    ELSE IF lcursor >= 0 /\ lcursor < Len(litems)
         THEN IF litems[lcursor + 1].isHeader THEN -1 ELSE litems[lcursor + 1].taskIndex
         ELSE -1

\* KanbanView.SelectedIndex: the index of the selected task, -1 for none
KanbanSelectedIndex ==
    LET col == kcolumns[activeCol]
    IN  IF Len(col.items) = 0 THEN -1
        ELSE IF col.cursor >= 0 /\ col.cursor < Len(col.items)
             THEN IF col.items[col.cursor + 1].isHeader THEN -1
                  ELSE col.items[col.cursor + 1].taskIndex
             ELSE -1

\* ------------------------------------------------------------------- Init
\* AppState
StateNormal == "StateNormal"
StateForm == "StateForm"
StateHelp == "StateHelp"
StateSearch == "StateSearch"
StateConfirmDelete == "StateConfirmDelete"
StateTagInput == "StateTagInput"

\* FormField
FieldTitle == 0
FieldDescription == 1
FieldTags == 2
FieldPriority == 3
FieldStatus == 4
FieldSubmit == 5
FieldCancel == 6

\* a nil *model.Task
NoTask == [id |-> 0]

\* ListView.SelectedTask: the task the cursor is on, NoTask for nil
ListSelectedTask ==
    IF Len(litems) = 0 THEN NoTask
    ELSE IF lcursor >= 0 /\ lcursor < Len(litems)
         THEN IF litems[lcursor + 1].isHeader THEN NoTask
              ELSE ltasks[litems[lcursor + 1].taskIndex + 1]
         ELSE NoTask

\* KanbanView.SelectedTask: the task the cursor of the active column is on
KanbanSelectedTask ==
    LET col == kcolumns[activeCol]
    IN  IF Len(col.items) = 0 THEN NoTask
        ELSE IF col.cursor >= 0 /\ col.cursor < Len(col.items)
             THEN IF col.items[col.cursor + 1].isHeader THEN NoTask
                  ELSE ktasks[col.items[col.cursor + 1].taskIndex + 1]
             ELSE NoTask

\* NewTaskForm: no task, empty inputs, focus on the title, Medium, Todo
NewTaskForm ==
    [task |-> NoTask, isNew |-> FALSE, focusedField |-> FieldTitle,
     titleInput |-> <<>>, descInput |-> <<>>, tagsInput |-> <<>>,
     priorityIdx |-> 1, statusIdx |-> 0]

\* NewApp: NewListView, NewKanbanView, NewTaskForm, viewMode ViewList,
\* state StateNormal
NewApp ==
    /\ tasks = <<>>
    /\ ltasks = <<>>
    /\ lfilter = <<>>
    /\ lfiltered = <<>>
    /\ lgroupBy = GroupByNone
    /\ litems = <<>>
    /\ lcursor = 0
    /\ ktasks = <<>>
    /\ kcolumns = [c \in 0..3 |-> [status |-> AllStatuses[c + 1], tasks |-> <<>>,
                                   items |-> <<>>, cursor |-> 0]]
    /\ activeCol = 0
    /\ kgroupBy = GroupByNone
    /\ viewMode = ViewList
    /\ state = StateNormal
    /\ message = ""
    /\ quit = FALSE
    /\ taskForm = NewTaskForm
    /\ tagInput = <<>>
    /\ searchInput = <<>>

\* the views on their own: a new App, no file, nothing in flight
Init ==
    /\ NewApp
    /\ file = <<>>
    /\ cmds = <<>>
    /\ inbox = <<>>

\* ---------------------------------------------------------------- actions
\* SetTasks that stores the collection and rebuilds nothing
ListSetTasks_KeepItems(ts) ==
    /\ ltasks' = ts
    /\ UNCHANGED <<lfilter, lfiltered, lgroupBy, litems, lcursor>>

\* ListView.SetTasks, as a relation on the list's fields
ListSetTasks(ts) ==
    /\ ltasks' = ts
    /\ lfiltered' = applyFilter(ts, lfilter)
    /\ litems' = organizeItems(ts, lfiltered', lgroupBy)
    /\ lcursor' = adjustCursor(litems', lcursor)
    /\ UNCHANGED <<lfilter, lgroupBy>>

\* KanbanView.SetTasks, as a relation on the kanban's fields
KanbanSetTasks(ts) ==
    /\ ktasks' = ts
    /\ kcolumns' =
         [c \in 0..3 |->
            LET colTasks == organizeTasks(ts)[c]
                colItems == organizeColumnItems(ts, colTasks, kgroupBy)
            IN  [status |-> kcolumns[c].status, tasks |-> colTasks, items |-> colItems,
                 cursor |-> adjustColumnCursor(colItems, kcolumns[c].cursor)]]
    /\ UNCHANGED <<activeCol, kgroupBy>>

\* App.Update on a tasksLoadedMsg: a.tasks = msg.tasks; a.refreshViews()
TasksLoaded ==
    \E ts \in RepositoryResults(tasks) :
        /\ tasks' = ts
        /\ ListSetTasks(ts)
        /\ KanbanSetTasks(ts)
        /\ UNCHANGED <<viewMode, appVars>>

\* ListView.SetFilter(filter), as a relation on the list's fields
SetFilter(filter) ==
    /\ lfilter' = ToLower(filter)
    /\ lfiltered' = applyFilter(ltasks, lfilter')
    /\ litems' = organizeItems(ltasks, lfiltered', lgroupBy)
    /\ lcursor' = adjustCursor(litems', 0)
    /\ UNCHANGED <<ltasks, lgroupBy>>

\* ListView.SetFilter
ListSetFilter ==
    \E filter \in FilterTexts :
        /\ SetFilter(filter)
        /\ UNCHANGED <<tasks, kanbanVars, viewMode, appVars>>

\* ListView.SetGroupBy
ListSetGroupBy ==
    \E groupBy \in {AllGroupBy[i] : i \in 1..4} :
        /\ lgroupBy' = groupBy
        /\ litems' = organizeItems(ltasks, lfiltered, groupBy)
        /\ lcursor' = adjustCursor(litems', lcursor)
        /\ UNCHANGED <<tasks, ltasks, lfilter, lfiltered, kanbanVars, viewMode, appVars>>

\* ListView.CycleGroupBy
ListCycleGroupBy ==
    /\ lgroupBy' = GroupByNext(lgroupBy)
    /\ litems' = organizeItems(ltasks, lfiltered, lgroupBy')
    /\ lcursor' = adjustCursor(litems', lcursor)
    /\ UNCHANGED <<tasks, ltasks, lfilter, lfiltered, kanbanVars, viewMode, appVars>>

\* ListView.MoveUp
ListMoveUp ==
    /\ lcursor' = ListMoveUpCursor(litems, lcursor)
    /\ UNCHANGED <<tasks, ltasks, lfilter, lfiltered, lgroupBy, litems, kanbanVars, viewMode, appVars>>

\* ListView.MoveDown
ListMoveDown ==
    /\ lcursor' = ListMoveDownCursor(litems, lcursor)
    /\ UNCHANGED <<tasks, ltasks, lfilter, lfiltered, lgroupBy, litems, kanbanVars, viewMode, appVars>>

\* the columns after organizeItems and adjustCursors under groupBy
kanbanRegroup(groupBy) ==
    [c \in 0..3 |->
        LET colItems == organizeColumnItems(ktasks, kcolumns[c].tasks, groupBy)
        IN  [kcolumns[c] EXCEPT !.items = colItems,
                                !.cursor = adjustColumnCursor(colItems, kcolumns[c].cursor)]]

\* KanbanView.SetGroupBy
KanbanSetGroupBy ==
    \E groupBy \in {AllGroupBy[i] : i \in 1..4} :
        /\ kgroupBy' = groupBy
        /\ kcolumns' = kanbanRegroup(groupBy)
        /\ UNCHANGED <<tasks, listVars, ktasks, activeCol, viewMode, appVars>>

\* KanbanView.CycleGroupBy
KanbanCycleGroupBy ==
    /\ kgroupBy' = GroupByNext(kgroupBy)
    /\ kcolumns' = kanbanRegroup(kgroupBy')
    /\ UNCHANGED <<tasks, listVars, ktasks, activeCol, viewMode, appVars>>

\* KanbanView.MoveUp
KanbanMoveUp ==
    /\ kcolumns' = [kcolumns EXCEPT ![activeCol].cursor =
                        KanbanMoveUpCursor(kcolumns[activeCol].items, kcolumns[activeCol].cursor)]
    /\ UNCHANGED <<tasks, listVars, ktasks, activeCol, kgroupBy, viewMode, appVars>>

\* KanbanView.MoveDown
\* KanbanView.MoveDown that moves the cursor of every column
KanbanMoveDown_EveryColumn ==
    /\ kcolumns' = [c \in 0..3 |->
                       [kcolumns[c] EXCEPT !.cursor =
                           KanbanMoveDownCursor(kcolumns[c].items, kcolumns[c].cursor)]]
    /\ UNCHANGED <<tasks, listVars, ktasks, activeCol, kgroupBy, viewMode, appVars>>

KanbanMoveDown ==
    /\ kcolumns' = [kcolumns EXCEPT ![activeCol].cursor =
                        KanbanMoveDownCursor(kcolumns[activeCol].items, kcolumns[activeCol].cursor)]
    /\ UNCHANGED <<tasks, listVars, ktasks, activeCol, kgroupBy, viewMode, appVars>>

\* KanbanView.MoveLeft: the new active column
MoveLeftCol(col) == IF col > 0 THEN col - 1 ELSE col

\* MoveRight without the check on the last column
MoveRightCol_Unclamped(col) == col + 1

\* KanbanView.MoveRight: the new active column
MoveRightCol(col) == IF col < 3 THEN col + 1 ELSE col

\* KanbanView.SetActiveColumn: the new active column
SetActiveColumnCol(current, col) == IF col >= 0 /\ col < 4 THEN col ELSE current

\* KanbanView.MoveLeft
MoveLeft ==
    /\ activeCol' = MoveLeftCol(activeCol)
    /\ UNCHANGED <<tasks, listVars, ktasks, kcolumns, kgroupBy, viewMode, appVars>>

\* KanbanView.MoveRight
MoveRight ==
    /\ activeCol' = MoveRightCol(activeCol)
    /\ UNCHANGED <<tasks, listVars, ktasks, kcolumns, kgroupBy, viewMode, appVars>>

\* KanbanView.SetActiveColumn, called with any int
SetActiveColumn ==
    \E col \in -1..4 :
        /\ activeCol' = SetActiveColumnCol(activeCol, col)
        /\ UNCHANGED <<tasks, listVars, ktasks, kcolumns, kgroupBy, viewMode, appVars>>

\* App.handleNormalKeys on the toggle-view key
ToggleView ==
    /\ IF viewMode = ViewList
       THEN /\ viewMode' = ViewKanban
            /\ activeCol' = IF ListSelectedIndex # -1
                            THEN SetActiveColumnCol(activeCol,
                                     StatusIndex(ltasks[ListSelectedIndex + 1].status))
                            ELSE activeCol
       ELSE /\ viewMode' = ViewList
            /\ UNCHANGED activeCol
    /\ UNCHANGED <<tasks, listVars, ktasks, kcolumns, kgroupBy, appVars>>

Next ==
    \/ TasksLoaded
    \/ ListSetFilter
    \/ ListSetGroupBy
    \/ ListCycleGroupBy
    \/ ListMoveUp
    \/ ListMoveDown
    \/ KanbanSetGroupBy
    \/ KanbanCycleGroupBy
    \/ KanbanMoveUp
    \/ KanbanMoveDown
    \/ MoveLeft
    \/ MoveRight
    \/ SetActiveColumn

\* the two views under every operation they expose
Spec == Init /\ [][Next]_vars

NextNav ==
    \/ TasksLoaded
    \/ ListMoveUp
    \/ ListMoveDown
    \/ KanbanMoveUp
    \/ KanbanMoveDown
    \/ MoveLeft
    \/ MoveRight
    \/ SetActiveColumn
    \/ ToggleView

\* navigation and view toggling over the loaded collections
SpecNav == Init /\ [][NextNav]_vars

\* ============================================================ the App
\* ------------------------------------------------------------- key names
KeysHelp == {"?"}
KeysQuit == {"q", "ctrl+c"}

\* ---------------------------------------------------------- the file
\* The tasks of the file the application starts on, in file order; every
\* field fits the input of the form that edits it.
StoredTasks ==
    << [id |-> 2, title |-> <<"b">>, description |-> <<>>,
        priority |-> PriorityHigh, status |-> StatusTodo, tags |-> << <<"x">> >>,
        createdAt |-> 1],
       [id |-> 4, title |-> <<"c">>, description |-> <<>>,
        priority |-> PriorityHigh, status |-> StatusBlocked, tags |-> << <<"y">> >>,
        createdAt |-> 2],
       [id |-> 1, title |-> <<"A">>, description |-> <<>>,
        priority |-> PriorityMedium, status |-> StatusDone, tags |-> <<>>,
        createdAt |-> 3] >>

\* the files the application can start on: no file, or the first n tasks
StoredFiles == { SubSeq(StoredTasks, 1, n) : n \in 0..MaxStored }

\* StatusFromIndex
StatusFromIndex(i) == IF i >= 0 /\ i < 4 THEN AllStatuses[i + 1] ELSE StatusTodo

\* Priority.Next that stays on Critical
PriorityNext_NoWrap(p) ==
    CASE p = PriorityLow -> PriorityMedium
      [] p = PriorityMedium -> PriorityHigh
      [] p = PriorityHigh -> PriorityCritical
      [] p = PriorityCritical -> PriorityCritical
      [] OTHER -> PriorityMedium

\* Priority.Next
PriorityNext(p) ==
    CASE p = PriorityLow -> PriorityMedium
      [] p = PriorityMedium -> PriorityHigh
      [] p = PriorityHigh -> PriorityCritical
      [] p = PriorityCritical -> PriorityLow
      [] OTHER -> PriorityMedium

\* Storage.AddTask on the loaded collection f
storageAddTask(f, task) == Append(f, task)

\* Storage.UpdateTask on the loaded collection f: the first task with the
\* identifier is replaced, nothing changes when there is none
storageUpdateTask(f, task) ==
    [i \in 1..Len(f) |->
        IF f[i].id = task.id /\ \A j \in 1..(i - 1) : f[j].id # task.id THEN task ELSE f[i]]

\* Storage.DeleteTask on the loaded collection f
storageDeleteTask(f, id) == SelectSeq(f, LAMBDA t : t.id # id)

\* ------------------------------------------------ the repository on the disk
\* The operators above give what a call of the Storage does to the stored
\* collection when every read and write succeeds. The operators below follow
\* yaml.go call by call: the file may be missing, unreadable or no YAML, a
\* write may fail, a task is written as a YAML mapping and read back from it,
\* and tasks carry their update time.

\* a task with its field UpdatedAt
WithUpdatedAt(task, time) ==
    [f \in DOMAIN task \cup {"updatedAt"} |-> IF f = "updatedAt" THEN time ELSE task[f]]

\* the fields of the Task struct that are tagged omitempty
OmitEmpty == {"description", "tags"}

\* yaml.Marshal of one Task: a mapping without the omitempty fields that are
\* empty
MarshalTask(task) ==
    [f \in {g \in DOMAIN task : ~(g \in OmitEmpty /\ task[g] = <<>>)} |-> task[f]]

\* yaml.Unmarshal of one mapping into a Task: a key that is missing leaves the
\* zero value of its field
UnmarshalTask(doc) ==
    [f \in {"id", "title", "description", "priority", "status", "tags", "createdAt",
            "updatedAt"} |->
        IF f \in DOMAIN doc THEN doc[f]
        ELSE IF f \in {"title", "description", "tags"} THEN <<>>
        ELSE IF f \in {"priority", "status"} THEN "" ELSE 0]

\* yaml.Marshal of a TaskStore
Marshal(ts) == [i \in 1..Len(ts) |-> MarshalTask(ts[i])]

\* yaml.Unmarshal into a TaskStore
Unmarshal(docs) == [i \in 1..Len(docs) |-> UnmarshalTask(docs[i])]

\* The file on the disk: kind "missing" (no such file), "unreadable" (ReadFile
\* fails for another reason), "corrupt" (Unmarshal fails) or "yaml" with the
\* mappings of its tasks; writable tells whether Save can write it.
Disk(kind, docs, writable) == [kind |-> kind, docs |-> docs, writable |-> writable]

\* what a call of the Storage returns, and the disk after it; tasks is <<>>
\* where Go returns nil
Returned(ts, err, disk) == [tasks |-> ts, err |-> err, disk |-> disk]

\* Storage.Load that takes a missing file for an error
Load_MissingIsError(disk) ==
    IF disk.kind = "yaml"
    THEN Returned(Unmarshal(disk.docs), FALSE, disk)
    ELSE Returned(<<>>, TRUE, disk)

\* Storage.Load
Load(disk) ==
    CASE disk.kind = "missing" -> Returned(<<>>, FALSE, disk)
      [] disk.kind = "unreadable" -> Returned(<<>>, TRUE, disk)
      [] disk.kind = "corrupt" -> Returned(<<>>, TRUE, disk)
      [] disk.kind = "yaml" -> Returned(Unmarshal(disk.docs), FALSE, disk)

\* Storage.Save
Save(disk, ts) ==
    IF disk.writable
    THEN Returned(<<>>, FALSE, Disk("yaml", Marshal(ts), TRUE))
    ELSE Returned(<<>>, TRUE, disk)

\* Storage.AddTask that puts the new task first
AddTask_Prepend(disk, task) ==
    LET loaded == Load(disk)
        ts == <<task>> \o loaded.tasks
        saved == Save(disk, ts)
    IN  IF loaded.err THEN Returned(<<>>, TRUE, disk)
        ELSE IF saved.err THEN Returned(<<>>, TRUE, saved.disk)
        ELSE Returned(ts, FALSE, saved.disk)

\* Storage.AddTask
AddTask(disk, task) ==
    LET loaded == Load(disk)
        ts == Append(loaded.tasks, task)
        saved == Save(disk, ts)
    IN  IF loaded.err THEN Returned(<<>>, TRUE, disk)
        ELSE IF saved.err THEN Returned(<<>>, TRUE, saved.disk)
        ELSE Returned(ts, FALSE, saved.disk)

\* Storage.UpdateTask that replaces every task after the first match as well
UpdateTask_FromMatch(disk, task, now) ==
    LET loaded == Load(disk)
        stamped == [task EXCEPT !.updatedAt = now]
        ts == [i \in 1..Len(loaded.tasks) |->
                 IF \E j \in 1..i : loaded.tasks[j].id = task.id
                 THEN stamped ELSE loaded.tasks[i]]
        saved == Save(disk, ts)
    IN  IF loaded.err THEN Returned(<<>>, TRUE, disk)
        ELSE IF saved.err THEN Returned(<<>>, TRUE, saved.disk)
        ELSE Returned(ts, FALSE, saved.disk)

\* Storage.UpdateTask: now is what time.Now() answers
UpdateTask(disk, task, now) ==
    LET loaded == Load(disk)
        stamped == [task EXCEPT !.updatedAt = now]
        ts == [i \in 1..Len(loaded.tasks) |->
                 IF /\ loaded.tasks[i].id = task.id
                    /\ \A j \in 1..(i - 1) : loaded.tasks[j].id # task.id
                 THEN stamped ELSE loaded.tasks[i]]
        saved == Save(disk, ts)
    IN  IF loaded.err THEN Returned(<<>>, TRUE, disk)
        ELSE IF saved.err THEN Returned(<<>>, TRUE, saved.disk)
        ELSE Returned(ts, FALSE, saved.disk)

\* Storage.DeleteTask
DeleteTask(disk, id) ==
    LET loaded == Load(disk)
        newTasks == SelectSeq(loaded.tasks, LAMBDA t : t.id # id)
        saved == Save(disk, newTasks)
    IN  IF loaded.err THEN Returned(<<>>, TRUE, disk)
        ELSE IF saved.err THEN Returned(<<>>, TRUE, saved.disk)
        ELSE Returned(newTasks, FALSE, saved.disk)

\* ------------------------------------------------- commands and messages
\* A command returned by Update: the storage call of its closure with the
\* arguments the closure captured.  issuedOn records the collection the App
\* held when the event that issued the command arrived; no action reads it.
Command(op, task, id) == [op |-> op, task |-> task, id |-> id, issuedOn |-> tasks]

\* a.loadTasks
loadTasks == Command("Load", NoTask, 0)

\* a.addTask(task)
addTask(task) == Command("AddTask", task, 0)

\* a.updateTask(task)
updateTask(task) == Command("UpdateTask", task, 0)

\* the closure of a.deleteSelectedTask for the selected task
deleteTask(id) == Command("DeleteTask", NoTask, id)

\* tasksLoadedMsg{tasks} sent by cmd
tasksLoadedMsg(ts, cmd) == [type |-> "tasksLoadedMsg", tasks |-> ts, cmd |-> cmd]

\* errMsg{err} sent by cmd
errMsg(cmd) == [type |-> "errMsg", tasks |-> <<>>, cmd |-> cmd]

\* what the storage call of cmd leaves in the file when the file holds f
storageResult(f, cmd) ==
    CASE cmd.op = "Load" -> f
      [] cmd.op = "AddTask" -> storageAddTask(f, cmd.task)
      [] cmd.op = "UpdateTask" -> storageUpdateTask(f, cmd.task)
      [] cmd.op = "DeleteTask" -> storageDeleteTask(f, cmd.id)

\* the number of commands and messages in flight
InFlight == Len(cmds) + Len(inbox)

\* one more command may be issued
CanIssue == InFlight < MaxInFlight

\* A command runs and its storage call succeeds: the file is rewritten and
\* the collection travels back in a tasksLoadedMsg.
RunCommand ==
    /\ ~quit
    /\ \E i \in 1..Len(cmds) :
          /\ cmds[i].op # "OpenEditor"
          /\ file' = storageResult(file, cmds[i])
          /\ inbox' = Append(inbox, tasksLoadedMsg(file', cmds[i]))
          /\ cmds' = RemoveAt(cmds, i - 1)
    /\ UNCHANGED <<tasks, listVars, kanbanVars, viewMode, state, message, quit,
                   taskForm, tagInput, searchInput>>

\* A command runs and its storage call returns an error (the file cannot be
\* read, parsed or written): the file is as it was, an errMsg travels back.
FailCommand ==
    /\ ~quit
    /\ \E i \in 1..Len(cmds) :
          /\ cmds[i].op # "OpenEditor"
          /\ inbox' = Append(inbox, errMsg(cmds[i]))
          /\ cmds' = RemoveAt(cmds, i - 1)
    /\ UNCHANGED <<tasks, listVars, kanbanVars, viewMode, state, file, message, quit,
                   taskForm, tagInput, searchInput>>

\* App.Update on a tasksLoadedMsg: a.tasks = msg.tasks; a.refreshViews()
\* The storage call of a command in its two steps, as yaml.go makes it and as
\* two commands that run at the same time can interleave them: LoadStep reads
\* the file into the command (field loaded), SaveStep changes what was read,
\* writes it to the file and sends the message. RunCommand is the two steps
\* with nothing in between.
LoadStep ==
    /\ ~quit
    /\ \E i \in 1..Len(cmds) :
          /\ cmds[i].op # "OpenEditor"
          /\ "loaded" \notin DOMAIN cmds[i]
          /\ cmds' = [cmds EXCEPT ![i] =
                         [f \in DOMAIN cmds[i] \cup {"loaded"} |->
                             IF f = "loaded" THEN file ELSE cmds[i][f]]]
    /\ UNCHANGED <<tasks, listVars, kanbanVars, viewMode, state, file, inbox, message,
                   quit, taskForm, tagInput, searchInput>>

SaveStep ==
    /\ ~quit
    /\ \E i \in 1..Len(cmds) :
          /\ "loaded" \in DOMAIN cmds[i]
          /\ LET result == storageResult(cmds[i].loaded, cmds[i])
             IN  /\ file' = IF cmds[i].op = "Load" THEN file ELSE result
                 /\ inbox' = Append(inbox, tasksLoadedMsg(result, cmds[i]))
          /\ cmds' = RemoveAt(cmds, i - 1)
    /\ UNCHANGED <<tasks, listVars, kanbanVars, viewMode, state, message, quit,
                   taskForm, tagInput, searchInput>>

\* Update on tasksLoadedMsg that applies the newest result and drops the older
\* ones that wait
UpdateTasksLoaded_Newest ==
    /\ ~quit
    /\ inbox # <<>>
    /\ inbox[Len(inbox)].type = "tasksLoadedMsg"
    /\ tasks' = inbox[Len(inbox)].tasks
    /\ ListSetTasks(tasks')
    /\ KanbanSetTasks(tasks')
    /\ inbox' = <<>>
    /\ UNCHANGED <<viewMode, state, file, cmds, message, quit, taskForm, tagInput,
                   searchInput>>

UpdateTasksLoaded ==
    /\ ~quit
    /\ inbox # <<>>
    /\ Head(inbox).type = "tasksLoadedMsg"
    /\ tasks' = Head(inbox).tasks
    /\ ListSetTasks(tasks')
    /\ KanbanSetTasks(tasks')
    /\ inbox' = Tail(inbox)
    /\ UNCHANGED <<viewMode, state, file, cmds, message, quit, taskForm, tagInput,
                   searchInput>>

\* App.Update on an errMsg: a.setMessage("Erreur: " + msg.Error())
UpdateErr ==
    /\ ~quit
    /\ inbox # <<>>
    /\ Head(inbox).type = "errMsg"
    /\ message' = "Erreur"
    /\ inbox' = Tail(inbox)
    /\ UNCHANGED <<tasks, listVars, kanbanVars, viewMode, state, file, cmds, quit,
                   taskForm, tagInput, searchInput>>

\* ------------------------------------------------------ selection, writes
\* App.selectedIndex
selectedIndex == IF viewMode = ViewList THEN ListSelectedIndex ELSE KanbanSelectedIndex

\* App.selectedTask: the task behind the pointer, NoTask for nil
selectedTask == IF selectedIndex = -1 THEN NoTask ELSE tasks[selectedIndex + 1]

\* a write through the pointer SelectedTask returned: position idx of ts
writeTask(ts, idx, task) == [ts EXCEPT ![idx + 1] = task]

\* a write through the pointer after which both views are rebuilt
WriteSelected_Rebuild(idx, task) ==
    /\ tasks' = writeTask(tasks, idx, task)
    /\ ListSetTasks(tasks')
    /\ KanbanSetTasks(tasks')

\* The write through the pointer lands in the one backing array that
\* a.tasks, listView.tasks and kanbanView.tasks share since the last
\* tasksLoadedMsg; no view is rebuilt.
WriteSelected(idx, task) ==
    /\ tasks' = writeTask(tasks, idx, task)
    /\ ltasks' = writeTask(ltasks, idx, task)
    /\ ktasks' = writeTask(ktasks, idx, task)
    /\ UNCHANGED <<lfilter, lfiltered, lgroupBy, litems, lcursor, kcolumns, activeCol,
                   kgroupBy>>

\* the handler changed nothing and returned no command
NoEffect == UNCHANGED vars

\* ------------------------------------------------- handleNormalKeys
\* the handler for the keys of StateNormal runs
\* the test of the state that lets the keys of StateNormal through in every
\* state
InNormal_AnyState == ~quit

InNormal == ~quit /\ state = StateNormal

\* Up: a.moveUp()
KeyUp == InNormal /\ IF viewMode = ViewList THEN ListMoveUp ELSE KanbanMoveUp

\* Down: a.moveDown()
KeyDown == InNormal /\ IF viewMode = ViewList THEN ListMoveDown ELSE KanbanMoveDown

\* Left
\* the left key that moves the active column in either view mode
KeyLeft_AnyView == InNormal /\ MoveLeft

KeyLeft == InNormal /\ IF viewMode = ViewKanban THEN MoveLeft ELSE NoEffect

\* Right
KeyRight == InNormal /\ IF viewMode = ViewKanban THEN MoveRight ELSE NoEffect

\* ToggleView
KeyToggleView == InNormal /\ ToggleView

\* KanbanView.MoveTaskLeft without the test of the first column
MoveTaskLeftIndex_NoEdge(col) == KanbanSelectedIndex

\* KanbanView.MoveTaskLeft: the index of the task it returns, -1 for nil
MoveTaskLeftIndex(col) == IF col = 0 THEN -1 ELSE KanbanSelectedIndex

\* KanbanView.MoveTaskRight: the index of the task it returns, -1 for nil
MoveTaskRightIndex(col) == IF col >= 3 THEN -1 ELSE KanbanSelectedIndex

\* the key handler issues cmd and changes nothing else of the App
Issue(cmd) ==
    /\ cmds' = Append(cmds, cmd)
    /\ UNCHANGED <<viewMode, state, file, inbox, message, quit, taskForm, tagInput,
                   searchInput>>

\* MoveLeft: the selected task gets the status of the column on the left,
\* written through the pointer, and a copy goes to updateTask
KeyMoveTaskLeft ==
    /\ InNormal
    /\ IF viewMode = ViewKanban /\ MoveTaskLeftIndex(activeCol) # -1
       THEN LET idx == MoveTaskLeftIndex(activeCol)
                task == [ktasks[idx + 1] EXCEPT !.status = StatusFromIndex(activeCol - 1)]
            IN  /\ CanIssue
                /\ WriteSelected(idx, task)
                /\ Issue(updateTask(task))
       ELSE NoEffect

\* MoveRight: the same towards the column on the right
KeyMoveTaskRight ==
    /\ InNormal
    /\ IF viewMode = ViewKanban /\ MoveTaskRightIndex(activeCol) # -1
       THEN LET idx == MoveTaskRightIndex(activeCol)
                task == [ktasks[idx + 1] EXCEPT !.status = StatusFromIndex(activeCol + 1)]
            IN  /\ CanIssue
                /\ WriteSelected(idx, task)
                /\ Issue(updateTask(task))
       ELSE NoEffect

\* Refresh: return a, a.loadTasks
\* the command of App.openEditor
openEditor == Command("OpenEditor", NoTask, 0)

\* what the command of openEditor answers: err tells whether OpenInEditor
\* returned an error
editorClosedMsg(err, cmd) ==
    [type |-> "editorClosedMsg", tasks |-> <<>>, cmd |-> cmd, err |-> err]

\* The command of openEditor runs to its end: the editor could not be started
\* or ended with an error and the file is as it was, or it ended well and
\* left the file with any content.
RunEditor ==
    /\ ~quit
    /\ \E i \in 1..Len(cmds), err \in BOOLEAN :
          /\ cmds[i].op = "OpenEditor"
          /\ file' \in (IF err THEN {file} ELSE StoredFiles)
          /\ inbox' = Append(inbox, editorClosedMsg(err, cmds[i]))
          /\ cmds' = RemoveAt(cmds, i - 1)
    /\ UNCHANGED <<tasks, listVars, kanbanVars, viewMode, state, message, quit,
                   taskForm, tagInput, searchInput>>

\* Update on editorClosedMsg that reloads only when the editor ended well
UpdateEditorClosed_ReloadOnSuccess ==
    /\ ~quit
    /\ inbox # <<>>
    /\ Head(inbox).type = "editorClosedMsg"
    /\ message' = IF Head(inbox).err THEN "Erreur lors de l'ouverture de l'editeur"
                  ELSE message
    /\ cmds' = IF Head(inbox).err THEN cmds ELSE Append(cmds, loadTasks)
    /\ inbox' = Tail(inbox)
    /\ UNCHANGED <<tasks, listVars, kanbanVars, viewMode, state, file, quit, taskForm,
                   tagInput, searchInput>>

\* App.Update on editorClosedMsg
UpdateEditorClosed ==
    /\ ~quit
    /\ inbox # <<>>
    /\ Head(inbox).type = "editorClosedMsg"
    /\ message' = IF Head(inbox).err THEN "Erreur lors de l'ouverture de l'editeur"
                  ELSE message
    /\ cmds' = Append(cmds, loadTasks)
    /\ inbox' = Tail(inbox)
    /\ UNCHANGED <<tasks, listVars, kanbanVars, viewMode, state, file, quit, taskForm,
                   tagInput, searchInput>>

\* handleNormalKeys on the open-editor key
KeyOpenEditor ==
    /\ InNormal
    /\ CanIssue
    /\ Issue(openEditor)
    /\ UNCHANGED <<tasks, listVars, kanbanVars>>

KeyRefresh ==
    /\ InNormal
    /\ CanIssue
    /\ Issue(loadTasks)
    /\ UNCHANGED <<tasks, listVars, kanbanVars>>

\* Priority: the next priority is written through the pointer and a copy
\* goes to updateTask
KeyPriority ==
    /\ InNormal
    /\ IF selectedIndex # -1
       THEN LET task == [selectedTask EXCEPT !.priority = PriorityNext(selectedTask.priority)]
            IN  /\ CanIssue
                /\ WriteSelected(selectedIndex, task)
                /\ Issue(updateTask(task))
       ELSE NoEffect

\* a.setTaskStatus that sets StatusTodo whatever the key
setTaskStatus_Todo(status) ==
    IF selectedIndex # -1
    THEN LET task == [selectedTask EXCEPT !.status = StatusTodo]
         IN  /\ CanIssue
             /\ WriteSelected(selectedIndex, task)
             /\ Issue(updateTask(task))
    ELSE NoEffect

\* a.setTaskStatus(status): nil without a selected task, else the status is
\* written through the pointer and a copy goes to updateTask
setTaskStatus(status) ==
    IF selectedIndex # -1
    THEN LET task == [selectedTask EXCEPT !.status = status]
         IN  /\ CanIssue
             /\ WriteSelected(selectedIndex, task)
             /\ Issue(updateTask(task))
    ELSE NoEffect

\* StatusTodo, StatusInProgress, StatusBlocked, StatusDone: the quick status keys
KeyStatus == InNormal /\ \E i \in 0..3 : setTaskStatus(StatusFromIndex(i))

\* Tag: with a selected task the tag input is emptied and StateTagInput entered
KeyTag ==
    /\ InNormal
    /\ IF selectedIndex # -1
       THEN /\ tagInput' = <<>>
            /\ state' = StateTagInput
            /\ UNCHANGED <<tasks, listVars, kanbanVars, viewMode, file, cmds, inbox,
                           message, quit, taskForm, searchInput>>
       ELSE NoEffect

\* ------------------------------------------------------------ text inputs
\* the keys that carry one character
RuneKeys == {"x", " ", ",", "q", "p"}

\* textinput.Update on a key: a character is appended while the value is
\* shorter than the CharLimit; the other keys of the model leave the value
\* alone
textInputUpdate(value, k, limit) ==
    IF k \in RuneKeys /\ Len(value) < limit THEN Append(value, k) ELSE value

\* textinput.SetValue: the value is cut at the CharLimit
setValue(s, limit) == IF Len(s) > limit THEN SubSeq(s, 1, limit) ELSE s

\* ---------------------------------------------------- handleTagInputKeys
\* the handler for the keys of StateTagInput runs
InTagInput == ~quit /\ state = StateTagInput

\* a toggle that appends the tag whether or not it is there
toggleTag_AlwaysAppend(tags, tag) == Append(tags, tag)

\* "Toggle tag": every occurrence of tag is dropped, tag is appended when
\* there was none
toggleTag(tags, tag) ==
    LET newTags == SelectSeq(tags, LAMBDA t : t # tag)
    IN  IF \E i \in 1..Len(tags) : tags[i] = tag THEN newTags ELSE Append(newTags, tag)

\* esc
TagInputEsc ==
    /\ InTagInput
    /\ state' = StateNormal
    /\ UNCHANGED <<tasks, listVars, kanbanVars, viewMode, file, cmds, inbox, message,
                   quit, taskForm, tagInput, searchInput>>

\* enter: a non-empty trimmed tag is toggled on the selected task through the
\* pointer and a copy goes to updateTask; StateNormal in every case
TagInputEnter ==
    /\ InTagInput
    /\ LET tag == TrimSpace(tagInput)
       IN  IF tag # <<>> /\ selectedIndex # -1
           THEN LET task == [selectedTask EXCEPT !.tags = toggleTag(selectedTask.tags, tag)]
                IN  /\ CanIssue
                    /\ WriteSelected(selectedIndex, task)
                    /\ cmds' = Append(cmds, updateTask(task))
           ELSE UNCHANGED <<tasks, listVars, kanbanVars, cmds>>
    /\ state' = StateNormal
    /\ UNCHANGED <<viewMode, file, inbox, message, quit, taskForm, tagInput, searchInput>>

\* any other key goes to the tag input
TagInputOther(k) ==
    /\ InTagInput
    /\ tagInput' = textInputUpdate(tagInput, k, MaxInputLen)
    /\ UNCHANGED <<tasks, listVars, kanbanVars, viewMode, state, file, cmds, inbox,
                   message, quit, taskForm, searchInput>>

\* ------------------------------------------------- the other Normal keys
\* quit without the test of the state
quitAllowed_AnyState(st) == TRUE

\* "key.Matches(msg, a.keys.Quit) && a.state == StateNormal"
quitAllowed(st) == st = StateNormal

\* Quit: handleKeyPress returns tea.Quit
KeyQuit ==
    /\ ~quit
    /\ quitAllowed(state)
    /\ quit' = TRUE
    /\ UNCHANGED <<tasks, listVars, kanbanVars, viewMode, state, file, cmds, inbox,
                   message, taskForm, tagInput, searchInput>>

\* Help
KeyHelp ==
    /\ InNormal
    /\ state' = StateHelp
    /\ UNCHANGED <<tasks, listVars, kanbanVars, viewMode, file, cmds, inbox, message,
                   quit, taskForm, tagInput, searchInput>>

\* Search: the search input is emptied and StateSearch entered
KeySearch ==
    /\ InNormal
    /\ searchInput' = <<>>
    /\ state' = StateSearch
    /\ UNCHANGED <<tasks, listVars, kanbanVars, viewMode, file, cmds, inbox, message,
                   quit, taskForm, tagInput>>

\* the delete key without the test of the selection
canDelete_Always(idx) == TRUE

\* "if a.selectedTask() != nil"
canDelete(idx) == idx # -1

\* Delete: StateConfirmDelete with a selected task
KeyDelete ==
    /\ InNormal
    /\ IF canDelete(selectedIndex)
       THEN /\ state' = StateConfirmDelete
            /\ UNCHANGED <<tasks, listVars, kanbanVars, viewMode, file, cmds, inbox,
                           message, quit, taskForm, tagInput, searchInput>>
       ELSE NoEffect

\* TaskForm.SetTask(task), nil included
SetTask(task) ==
    IF task = NoTask
    THEN [task |-> NoTask, isNew |-> TRUE, focusedField |-> FieldTitle,
          titleInput |-> <<>>, descInput |-> <<>>, tagsInput |-> <<>>,
          priorityIdx |-> 1, statusIdx |-> 0]
    ELSE [task |-> task, isNew |-> FALSE, focusedField |-> FieldTitle,
          titleInput |-> setValue(task.title, MaxInputLen),
          descInput |-> setValue(task.description, MaxInputLen),
          tagsInput |-> setValue(Join(task.tags), MaxTagsLen),
          priorityIdx |-> IF \E i \in 0..3 : AllPriorities[i + 1] = task.priority
                          THEN CHOOSE i \in 0..3 : AllPriorities[i + 1] = task.priority
                          ELSE taskForm.priorityIdx,
          statusIdx |-> IF \E i \in 0..3 : AllStatuses[i + 1] = task.status
                        THEN CHOOSE i \in 0..3 : AllStatuses[i + 1] = task.status
                        ELSE taskForm.statusIdx]

\* Add: the form opens on no task
KeyAdd ==
    /\ InNormal
    /\ taskForm' = SetTask(NoTask)
    /\ state' = StateForm
    /\ UNCHANGED <<tasks, listVars, kanbanVars, viewMode, file, cmds, inbox, message,
                   quit, tagInput, searchInput>>

\* Edit, Enter: the form opens on the selected task
KeyEdit ==
    /\ InNormal
    /\ IF selectedIndex # -1
       THEN /\ taskForm' = SetTask(selectedTask)
            /\ state' = StateForm
            /\ UNCHANGED <<tasks, listVars, kanbanVars, viewMode, file, cmds, inbox,
                           message, quit, tagInput, searchInput>>
       ELSE NoEffect

\* ----------------------------------------------------------- handleHelpKeys
InHelp == ~quit /\ state = StateHelp

\* the keys that close the help panel
KeysHelpClose == KeysHelp \cup {"esc", "q"}

\* Help, esc, q
HelpClose ==
    /\ InHelp
    /\ state' = StateNormal
    /\ UNCHANGED <<tasks, listVars, kanbanVars, viewMode, file, cmds, inbox, message,
                   quit, taskForm, tagInput, searchInput>>

\* any other key
HelpOther(k) == InHelp /\ k \notin KeysHelpClose /\ NoEffect

\* --------------------------------------------------------- handleSearchKeys
InSearch == ~quit /\ state = StateSearch

\* esc: the search input and the filter are emptied
SearchEsc ==
    /\ InSearch
    /\ searchInput' = <<>>
    /\ SetFilter(<<>>)
    /\ state' = StateNormal
    /\ UNCHANGED <<tasks, kanbanVars, viewMode, file, cmds, inbox, message, quit,
                   taskForm, tagInput>>

\* enter: the filter stays
SearchEnter ==
    /\ InSearch
    /\ state' = StateNormal
    /\ UNCHANGED <<tasks, listVars, kanbanVars, viewMode, file, cmds, inbox, message,
                   quit, taskForm, tagInput, searchInput>>

\* any other key goes to the search input, whose value becomes the filter
SearchOther(k) ==
    /\ InSearch
    /\ k \notin {"esc", "enter"}
    /\ searchInput' = textInputUpdate(searchInput, k, MaxInputLen)
    /\ SetFilter(searchInput')
    /\ UNCHANGED <<tasks, kanbanVars, viewMode, state, file, cmds, inbox, message, quit,
                   taskForm, tagInput>>

\* -------------------------------------------------- handleDeleteConfirmKeys
InConfirmDelete == ~quit /\ state = StateConfirmDelete

KeysYes == {"y", "Y"}

KeysNo == {"n", "N", "esc"}

\* y, Y: StateNormal and the command of a.deleteSelectedTask, nil when no
\* task is selected
ConfirmYes ==
    /\ InConfirmDelete
    /\ state' = StateNormal
    /\ IF selectedIndex # -1
       THEN CanIssue /\ cmds' = Append(cmds, deleteTask(selectedTask.id))
       ELSE cmds' = cmds
    /\ UNCHANGED <<tasks, listVars, kanbanVars, viewMode, file, inbox, message, quit,
                   taskForm, tagInput, searchInput>>

\* n, N, esc
ConfirmNo ==
    /\ InConfirmDelete
    /\ state' = StateNormal
    /\ UNCHANGED <<tasks, listVars, kanbanVars, viewMode, file, cmds, inbox, message,
                   quit, taskForm, tagInput, searchInput>>

\* any other key
ConfirmOther(k) == InConfirmDelete /\ k \notin (KeysYes \cup KeysNo) /\ NoEffect

\* ------------------------------------------------------------- TaskForm
\* TaskForm.nextField that stops on the last field
nextField_NoWrap(field) == IF field + 1 > FieldCancel THEN FieldCancel ELSE field + 1

\* TaskForm.nextField: the focus after it
nextField(field) == IF field + 1 > FieldCancel THEN FieldTitle ELSE field + 1

\* TaskForm.prevField: the focus after it
prevField(field) == IF field = FieldTitle THEN FieldCancel ELSE field - 1

\* TaskForm.IsValid without the trim
IsValid_NoTrim(form) == form.titleInput # <<>>

\* TaskForm.IsValid
IsValid(form) == TrimSpace(form.titleInput) # <<>>

\* the identifiers of the tasks of a collection
IdsOf(ts) == {ts[i].id : i \in 1..Len(ts)}

\* the identifiers in use anywhere: a new uuid is none of them
UsedIds ==
    IdsOf(StoredTasks) \cup IdsOf(file) \cup IdsOf(tasks)
      \cup {cmds[i].task.id : i \in 1..Len(cmds)} \cup {cmds[i].id : i \in 1..Len(cmds)}
      \cup UNION {IdsOf(inbox[i].tasks) : i \in 1..Len(inbox)}
      \cup {taskForm.task.id}

\* uuid.New()
NewId == 1 + (CHOOSE m \in UsedIds : \A n \in UsedIds : n <= m)

\* "Parse tags": the trimmed non-empty pieces of the tags input
parseTags(tagStr) ==
    IF tagStr # <<>>
    THEN LET pieces == Split(tagStr)
             trimmed == [i \in 1..Len(pieces) |-> TrimSpace(pieces[i])]
         IN  SelectSeq(trimmed, LAMBDA t : t # <<>>)
    ELSE <<>>

\* the creation times of the tasks of a collection
CreatedIn(ts) == {ts[i].createdAt : i \in 1..Len(ts)}

\* the creation times on record anywhere
UsedTimes ==
    CreatedIn(StoredTasks) \cup CreatedIn(file) \cup CreatedIn(tasks)
      \cup {cmds[i].task.createdAt : i \in {j \in 1..Len(cmds) : cmds[j].task # NoTask}}
      \cup UNION {CreatedIn(inbox[i].tasks) : i \in 1..Len(inbox)}

\* time.Now(): later than every time on record
Now == 1 + (CHOOSE m \in UsedTimes : \A n \in UsedTimes : n <= m)

\* TaskForm.GetTask that builds a new task in edit mode too
GetTask_NewTask(form) ==
    [id |-> NewId,
     title |-> form.titleInput,
     description |-> form.descInput,
     priority |-> AllPriorities[form.priorityIdx + 1],
     status |-> AllStatuses[form.statusIdx + 1],
     tags |-> parseTags(form.tagsInput),
     createdAt |-> Now]

\* TaskForm.GetTask: the task of the form, or model.NewTask, with the values
\* of the form
GetTask(form) ==
    [id |-> IF form.task # NoTask THEN form.task.id ELSE NewId,
     title |-> form.titleInput,
     description |-> form.descInput,
     priority |-> AllPriorities[form.priorityIdx + 1],
     status |-> AllStatuses[form.statusIdx + 1],
     tags |-> parseTags(form.tagsInput),
     createdAt |-> IF form.task # NoTask THEN form.task.createdAt ELSE Now]

\* "left" that wraps from the first value to the last
stepLeft_Wrap(idx) == IF idx > 0 THEN idx - 1 ELSE 3

\* "left" on the priority or the status of the form: one down, not below 0
stepLeft(idx) == IF idx > 0 THEN idx - 1 ELSE idx

\* "right" on the priority or the status of the form: one up, not past the
\* last of the n values
stepRight(idx, n) == IF idx < n - 1 THEN idx + 1 ELSE idx

\* TaskForm.Update on a key
formUpdate(form, k) ==
    CASE k \in {"tab", "down"} -> [form EXCEPT !.focusedField = nextField(form.focusedField)]
      [] k \in {"shift+tab", "up"} -> [form EXCEPT !.focusedField = prevField(form.focusedField)]
      [] k = "left" ->
           IF form.focusedField = FieldPriority
           THEN [form EXCEPT !.priorityIdx = stepLeft(@)]
           ELSE IF form.focusedField = FieldStatus
                THEN [form EXCEPT !.statusIdx = stepLeft(@)]
                ELSE form
      [] k = "right" ->
           IF form.focusedField = FieldPriority
           THEN [form EXCEPT !.priorityIdx = stepRight(@, Len(AllPriorities))]
           ELSE IF form.focusedField = FieldStatus
                THEN [form EXCEPT !.statusIdx = stepRight(@, Len(AllStatuses))]
                ELSE form
      [] OTHER ->
           CASE form.focusedField = FieldTitle ->
                  [form EXCEPT !.titleInput = textInputUpdate(@, k, MaxInputLen)]
             [] form.focusedField = FieldDescription ->
                  [form EXCEPT !.descInput = textInputUpdate(@, k, MaxInputLen)]
             [] form.focusedField = FieldTags ->
                  [form EXCEPT !.tagsInput = textInputUpdate(@, k, MaxTagsLen)]
             [] OTHER -> form

\* ----------------------------------------------------------- handleFormKeys
InForm == ~quit /\ state = StateForm

\* the AddTask commands not yet run
PendingAdds == Cardinality({i \in 1..Len(cmds) : cmds[i].op = "AddTask"})

\* the model keeps the file within MaxStored tasks: a task is added while the
\* file and the additions on their way leave room for it
CanAdd == Len(file) + PendingAdds < MaxStored

\* esc
FormEsc ==
    /\ InForm
    /\ state' = StateNormal
    /\ UNCHANGED <<tasks, listVars, kanbanVars, viewMode, file, cmds, inbox, message,
                   quit, taskForm, tagInput, searchInput>>

\* enter: on Submit a valid form is committed (addTask for a new task,
\* updateTask otherwise) and StateNormal entered; on Cancel StateNormal is
\* entered; in every other case the key goes to the form
FormEnter ==
    /\ InForm
    /\ IF taskForm.focusedField = FieldSubmit /\ IsValid(taskForm)
       THEN /\ CanIssue
            /\ taskForm.isNew => CanAdd
            /\ state' = StateNormal
            /\ cmds' = Append(cmds, IF taskForm.isNew THEN addTask(GetTask(taskForm))
                                    ELSE updateTask(GetTask(taskForm)))
            /\ UNCHANGED taskForm
       ELSE IF taskForm.focusedField = FieldCancel
            THEN /\ state' = StateNormal
                 /\ UNCHANGED <<cmds, taskForm>>
            ELSE /\ taskForm' = formUpdate(taskForm, "enter")
                 /\ UNCHANGED <<state, cmds>>
    /\ UNCHANGED <<tasks, listVars, kanbanVars, viewMode, file, inbox, message, quit,
                   tagInput, searchInput>>

\* any other key goes to the form
FormOther(k) ==
    /\ InForm
    /\ k \notin {"esc", "enter"}
    /\ taskForm' = formUpdate(taskForm, k)
    /\ UNCHANGED <<tasks, listVars, kanbanVars, viewMode, state, file, cmds, inbox,
                   message, quit, tagInput, searchInput>>

\* App.Init has returned a.loadTasks; the file is one the application can
\* start on
InitApp ==
    /\ NewApp
    /\ file \in StoredFiles
    /\ cmds = <<loadTasks>>
    /\ inbox = <<>>

NextKanban ==
    \/ RunCommand
    \/ UpdateTasksLoaded
    \/ KeyUp
    \/ KeyDown
    \/ KeyLeft
    \/ KeyRight
    \/ KeyToggleView
    \/ KeyMoveTaskLeft
    \/ KeyMoveTaskRight

\* the board: navigation and moving tasks between columns, over a storage
\* that does not fail
SpecKanban == InitApp /\ [][NextKanban]_vars

\* the keys typed into the tag input when tags are edited
EditKeys == {"x", " "}

NextEdit ==
    \/ RunCommand
    \/ UpdateTasksLoaded
    \/ KeyUp
    \/ KeyDown
    \/ KeyLeft
    \/ KeyRight
    \/ KeyToggleView
    \/ KeyMoveTaskLeft
    \/ KeyMoveTaskRight
    \/ KeyPriority
    \/ KeyStatus
    \/ KeyTag
    \/ TagInputEsc
    \/ TagInputEnter
    \/ \E k \in EditKeys : TagInputOther(k)

\* the keys that change the selected task in place, over a storage that does
\* not fail
SpecEdit == InitApp /\ [][NextEdit]_vars

NextFail ==
    \/ RunCommand
    \/ FailCommand
    \/ UpdateTasksLoaded
    \/ UpdateErr
    \/ KeyUp
    \/ KeyDown
    \/ KeyPriority
    \/ KeyRefresh

\* priority changes and reloads over a storage whose calls can fail
SpecFail == InitApp /\ [][NextFail]_vars

\* the keys the modal states are given besides their own
ModalKeys == KeysQuit \cup {"x"}

NextModal ==
    \/ RunCommand
    \/ UpdateTasksLoaded
    \/ KeyDown
    \/ KeyQuit
    \/ KeyHelp
    \/ KeySearch
    \/ KeyDelete
    \/ KeyAdd
    \/ KeyEdit
    \/ KeyTag
    \/ HelpClose
    \/ \E k \in ModalKeys : HelpOther(k)
    \/ SearchEsc
    \/ SearchEnter
    \/ \E k \in ModalKeys : SearchOther(k)
    \/ ConfirmYes
    \/ ConfirmNo
    \/ \E k \in ModalKeys : ConfirmOther(k)
    \/ TagInputEsc
    \/ \E k \in ModalKeys : TagInputOther(k)
    \/ FormEsc
    \/ \E k \in ModalKeys : FormOther(k)

\* the six interaction states under the keys that enter and leave them, the
\* quit keys included in each
SpecModal == InitApp /\ [][NextModal]_vars

\* the keys that move the focus of the form
FocusKeys == {"tab", "shift+tab"}

\* the characters typed into the title
TitleKeys == {" ", "x"}

NextForm ==
    \/ RunCommand
    \/ UpdateTasksLoaded
    \/ KeyDown
    \/ KeyAdd
    \/ KeyEdit
    \/ FormEsc
    \/ FormEnter
    \/ \E k \in FocusKeys : FormOther(k)
    \/ \E k \in TitleKeys : taskForm.focusedField = FieldTitle /\ FormOther(k)

\* the form in create and in edit mode, its title typed into, its focus moved
\* over every field, committed and cancelled
SpecForm == InitApp /\ [][NextForm]_vars

\* the characters typed into the title and the tags input
TagsKeys == {"x", ","}

\* the characters typed into the tag input
TagInputKeys == {"x", " "}

NextTags ==
    \/ RunCommand
    \/ UpdateTasksLoaded
    \/ KeyAdd
    \/ KeyEdit
    \/ FormEsc
    \/ FormEnter
    \/ \E k \in FocusKeys : FormOther(k)
    \/ \E k \in TagsKeys :
          taskForm.focusedField \in {FieldTitle, FieldTags} /\ FormOther(k)
    \/ KeyTag
    \/ TagInputEsc
    \/ TagInputEnter
    \/ \E k \in TagInputKeys : TagInputOther(k)

\* the two ways tags are written: the tags input of the form and the tag
\* input
SpecTags == InitApp /\ [][NextTags]_vars

\* the character typed into the title and the tag input
CommitKeys == {"x"}

NextCommit ==
    \/ RunCommand
    \/ UpdateTasksLoaded
    \/ KeyToggleView
    \/ KeyMoveTaskLeft
    \/ KeyMoveTaskRight
    \/ KeyPriority
    \/ KeyStatus
    \/ KeyTag
    \/ TagInputEnter
    \/ \E k \in CommitKeys : TagInputOther(k)
    \/ KeyAdd
    \/ KeyEdit
    \/ FormEnter
    \/ \E k \in FocusKeys : FormOther(k)
    \/ \E k \in CommitKeys : taskForm.focusedField = FieldTitle /\ FormOther(k)

\* every way a task is sent to the repository: the form in both modes, the
\* priority, status and move-task keys, and the tag input
SpecCommit == InitApp /\ [][NextCommit]_vars

NextStatus ==
    \/ RunCommand
    \/ UpdateTasksLoaded
    \/ KeyToggleView
    \/ KeyStatus

\* the quick status keys in both views
SpecStatus == InitApp /\ [][NextStatus]_vars

\* the characters typed into the tag input
ToggleKeys == {"q", ",", " "}

NextTagInput ==
    \/ RunCommand
    \/ UpdateTasksLoaded
    \/ KeyTag
    \/ TagInputEsc
    \/ TagInputEnter
    \/ \E k \in ToggleKeys : TagInputOther(k)

\* the tag input entered, typed into, confirmed and left
SpecTagInput == InitApp /\ [][NextTagInput]_vars

\* the keys that step the priority and the status of the form
StepKeys == {"left", "right"}

NextFields ==
    \/ RunCommand
    \/ UpdateTasksLoaded
    \/ KeyAdd
    \/ KeyEdit
    \/ FormEsc
    \/ taskForm.focusedField = FieldCancel /\ FormEnter
    \/ \E k \in FocusKeys : FormOther(k)
    \/ \E k \in StepKeys : FormOther(k)

\* the form opened, its focus moved, its priority and status stepped, and
\* left without a commit
SpecFields == InitApp /\ [][NextFields]_vars

\* The App after the stored task was loaded and the priority key and then a
\* quick-status key were pressed on it before either update ran: both writes
\* are in the shared array, the views are as the load left them, and the two
\* update commands wait, the first with the new priority, the second with the
\* new priority and the new status.
InitRace ==
    \E i \in 0..3 :
       LET loaded == <<StoredTasks[1]>>
           first == [StoredTasks[1] EXCEPT !.priority = PriorityNext(@)]
           second == [first EXCEPT !.status = StatusFromIndex(i)]
       IN  /\ file = loaded
           /\ tasks = <<second>>
           /\ ltasks = <<second>>
           /\ lfilter = <<>>
           /\ lfiltered = applyFilter(loaded, <<>>)
           /\ lgroupBy = GroupByNone
           /\ litems = organizeItems(loaded, lfiltered, GroupByNone)
           /\ lcursor = adjustCursor(litems, 0)
           /\ ktasks = <<second>>
           /\ kgroupBy = GroupByNone
           /\ kcolumns =
                [c \in 0..3 |->
                   LET colTasks == organizeTasks(loaded)[c]
                       colItems == organizeColumnItems(loaded, colTasks, GroupByNone)
                   IN  [status |-> AllStatuses[c + 1], tasks |-> colTasks,
                        items |-> colItems, cursor |-> adjustColumnCursor(colItems, 0)]]
           /\ activeCol = 0
           /\ viewMode = ViewList
           /\ state = StateNormal
           /\ message = ""
           /\ quit = FALSE
           /\ taskForm = NewTaskForm
           /\ tagInput = <<>>
           /\ searchInput = <<>>
           /\ cmds = <<[op |-> "UpdateTask", task |-> first, id |-> 0, issuedOn |-> loaded],
                       [op |-> "UpdateTask", task |-> second, id |-> 0,
                        issuedOn |-> <<first>>]>>
           /\ inbox = <<>>

NextRace ==
    \/ RunCommand
    \/ UpdateTasksLoaded
    \/ KeyToggleView
    \/ KeyPriority
    \/ KeyStatus

\* two updates of one task in flight at once, run and answered in any order
SpecRace == InitRace /\ [][NextRace]_vars


NextEditor ==
    \/ RunCommand
    \/ RunEditor
    \/ UpdateTasksLoaded
    \/ UpdateEditorClosed
    \/ KeyOpenEditor
    \/ KeyToggleView
    \/ KeyHelp
    \/ HelpClose
    \/ KeyTag
    \/ TagInputEsc

\* the file edited in the external editor while the App runs; every message
\* that was sent is handled in the end
SpecEditor ==
    /\ InitApp
    /\ [][NextEditor]_vars
    /\ WF_vars(UpdateTasksLoaded)
    /\ WF_vars(UpdateEditorClosed)


\* ---------------------------------------------------- the repository alone
\* the tasks the repository is called with and the file is filled with: the
\* stored tasks and a second task with the identifier of the first
RepoPool ==
    {WithUpdatedAt(StoredTasks[i], StoredTasks[i].createdAt) : i \in 1..3}
      \cup {WithUpdatedAt([StoredTasks[1] EXCEPT !.title = <<"d">>, !.tags = <<>>], 1)}

\* the identifiers the repository is called with
RepoIds == {t.id : t \in RepoPool}

\* the times time.Now() answers, all after the times of the pool
Clock == 4..(3 + MaxClock)

\* the sequences of at most n elements of S
SeqsUpTo(S, n) == UNION {[1..k -> S] : k \in 0..n}

\* The files the repository starts with: written by Save from tasks of the
\* pool, or by hand with an empty tags key spelled out, or none, or one that
\* cannot be read, or one that is no YAML; each one writable or not.
Disks ==
    {Disk(k, <<>>, w) : k \in {"missing", "unreadable", "corrupt"}, w \in BOOLEAN}
      \cup {Disk("yaml", Marshal(ts), w) : ts \in SeqsUpTo(RepoPool, MaxRepoLen), w \in BOOLEAN}
      \cup {Disk("yaml", <<[id |-> 7, title |-> <<"e">>, priority |-> PriorityLow,
                            status |-> StatusTodo, tags |-> <<>>, createdAt |-> 1,
                            updatedAt |-> 1]>>, TRUE)}

\* the App and its views as NewApp leaves them, no command in flight, and any
\* of the files on the disk
InitRepo ==
    /\ NewApp
    /\ file \in Disks
    /\ cmds = <<>>
    /\ inbox = <<>>

\* the message of a command closure for what the Storage returned
answer(returned, cmd) ==
    IF returned.err THEN errMsg(cmd) ELSE tasksLoadedMsg(returned.tasks, cmd)

\* a call of the Storage and the message of its closure; the App is not
\* touched
Call(returned, cmd) ==
    /\ file' = returned.disk
    /\ inbox' = <<answer(returned, cmd)>>
    /\ UNCHANGED <<tasks, listVars, kanbanVars, viewMode, state, cmds, message, quit,
                   taskForm, tagInput, searchInput>>

\* App.loadTasks
CallLoad == Call(Load(file), loadTasks)

\* the closure of App.addTask
CallAddTask ==
    \E task \in RepoPool :
       /\ Len(file.docs) < MaxRepoLen
       /\ Call(AddTask(file, task), addTask(task))

\* the closure of App.updateTask
CallUpdateTask ==
    \E task \in RepoPool, now \in Clock : Call(UpdateTask(file, task, now), updateTask(task))

\* the closure of App.deleteSelectedTask
CallDeleteTask == \E id \in RepoIds : Call(DeleteTask(file, id), deleteTask(id))

NextRepo ==
    \/ CallLoad
    \/ CallAddTask
    \/ CallUpdateTask
    \/ CallDeleteTask

\* the repository called again and again on one file; file is the file on the
\* disk as a Disk record, inbox holds the message of the last call
SpecRepo == InitRepo /\ [][NextRepo]_vars


\* The App after a file of the first two stored tasks was loaded: the list
\* shows both with the cursor on the first, no command is in flight.
InitTarget ==
    LET loaded == SubSeq(StoredTasks, 1, 2)
    IN  /\ file = loaded
        /\ tasks = loaded
        /\ ltasks = loaded
        /\ lfilter = <<>>
        /\ lfiltered = applyFilter(loaded, <<>>)
        /\ lgroupBy = GroupByNone
        /\ litems = organizeItems(loaded, lfiltered, GroupByNone)
        /\ lcursor = adjustCursor(litems, 0)
        /\ ktasks = loaded
        /\ kgroupBy = GroupByNone
        /\ kcolumns =
             [c \in 0..3 |->
                LET colTasks == organizeTasks(loaded)[c]
                    colItems == organizeColumnItems(loaded, colTasks, GroupByNone)
                IN  [status |-> AllStatuses[c + 1], tasks |-> colTasks,
                     items |-> colItems, cursor |-> adjustColumnCursor(colItems, 0)]]
        /\ activeCol = 0
        /\ viewMode = ViewList
        /\ state = StateNormal
        /\ message = ""
        /\ quit = FALSE
        /\ taskForm = NewTaskForm
        /\ tagInput = <<>>
        /\ searchInput = <<>>
        /\ cmds = <<>>
        /\ inbox = <<>>

NextTarget ==
    \/ RunCommand
    \/ UpdateTasksLoaded
    \/ KeyDown
    \/ KeyUp
    \/ KeyToggleView
    \/ KeyDelete
    \/ ConfirmYes
    \/ ConfirmNo
    \/ KeyTag
    \/ TagInputEnter
    \/ TagInputEsc
    \/ \E k \in CommitKeys : TagInputOther(k)

\* the delete and the tag modal opened on one of two tasks while the result
\* of an earlier command is on its way
SpecTarget == InitTarget /\ [][NextTarget]_vars


\* The App after a file of the first two stored tasks was loaded and the
\* priority key was pressed on the first task and, after the down key, on the
\* second, before either update ran: the two updates, of two tasks, wait.
InitStore ==
    LET loaded == SubSeq(StoredTasks, 1, 2)
        first == [loaded[1] EXCEPT !.priority = PriorityNext(@)]
        second == [loaded[2] EXCEPT !.priority = PriorityNext(@)]
    IN  /\ file = loaded
        /\ tasks = <<first, second>>
        /\ ltasks = <<first, second>>
        /\ lfilter = <<>>
        /\ lfiltered = applyFilter(loaded, <<>>)
        /\ lgroupBy = GroupByNone
        /\ litems = organizeItems(loaded, lfiltered, GroupByNone)
        /\ lcursor = ListMoveDownCursor(litems, adjustCursor(litems, 0))
        /\ ktasks = <<first, second>>
        /\ kgroupBy = GroupByNone
        /\ kcolumns =
             [c \in 0..3 |->
                LET colTasks == organizeTasks(loaded)[c]
                    colItems == organizeColumnItems(loaded, colTasks, GroupByNone)
                IN  [status |-> AllStatuses[c + 1], tasks |-> colTasks,
                     items |-> colItems, cursor |-> adjustColumnCursor(colItems, 0)]]
        /\ activeCol = 0
        /\ viewMode = ViewList
        /\ state = StateNormal
        /\ message = ""
        /\ quit = FALSE
        /\ taskForm = NewTaskForm
        /\ tagInput = <<>>
        /\ searchInput = <<>>
        /\ cmds = <<[op |-> "UpdateTask", task |-> first, id |-> 0, issuedOn |-> loaded],
                    [op |-> "UpdateTask", task |-> second, id |-> 0,
                     issuedOn |-> <<first, loaded[2]>>]>>
        /\ inbox = <<>>

NextStore ==
    \/ LoadStep
    \/ SaveStep
    \/ UpdateTasksLoaded
    \/ KeyUp
    \/ KeyDown
    \/ KeyToggleView
    \/ KeyPriority

\* two updates of two tasks in flight at once, their reads and writes of the
\* file in any order
SpecStore == InitStore /\ [][NextStore]_vars


\* keys that act on the view or the selected task in StateNormal: cycle
\* priority, toggle view, next column, move task right
IsolationKeys == {"p", "tab", "right", "shift+right"}

\* the key among them that a text input takes as a character
TypedKeys == {"p"}

NextIsolation ==
    \/ RunCommand
    \/ UpdateTasksLoaded
    \/ KeyToggleView
    \/ KeyRight
    \/ KeyPriority
    \/ KeyMoveTaskRight
    \/ KeyHelp
    \/ HelpClose
    \/ \E k \in IsolationKeys : HelpOther(k)
    \/ KeySearch
    \/ SearchEsc
    \/ \E k \in TypedKeys : SearchOther(k)
    \/ KeyDelete
    \/ ConfirmNo
    \/ \E k \in IsolationKeys : ConfirmOther(k)
    \/ KeyTag
    \/ TagInputEsc
    \/ \E k \in TypedKeys : TagInputOther(k)
    \/ KeyEdit
    \/ FormEsc
    \/ \E k \in TypedKeys : taskForm.focusedField = FieldTitle /\ FormOther(k)
    \/ FormOther("tab")

\* the keys of StateNormal pressed in StateNormal and in every modal state
SpecIsolation == InitApp /\ [][NextIsolation]_vars

\* ------------------------------------------------------ claims: helpers
\* the positions of the task items of an item sequence
TaskPositions(items) == {i \in 0..(Len(items) - 1) : ~items[i + 1].isHeader}

\* the positions of the headers of an item sequence
HeaderPositions(items) == {i \in 0..(Len(items) - 1) : items[i + 1].isHeader}

MaxOf(S) == CHOOSE x \in S : \A y \in S : y <= x

MinOf(S) == CHOOSE x \in S : \A y \in S : x <= y

\* the cursor rests on a task item, or on 0 when there is no item
CursorOnTask(items, cursor) ==
    /\ TaskPositions(items) # {} => cursor \in TaskPositions(items)
    /\ Len(items) = 0 => cursor = 0

\* the nearest task item above the cursor, the cursor itself when there is none
NearestTaskAbove(items, cursor) ==
    LET above == {i \in TaskPositions(items) : i < cursor}
    IN  IF above = {} THEN cursor ELSE MaxOf(above)

\* the nearest task item below the cursor, the cursor itself when there is none
NearestTaskBelow(items, cursor) ==
    LET below == {i \in TaskPositions(items) : i > cursor}
    IN  IF below = {} THEN cursor ELSE MinOf(below)

\* ------------------------------------------------------------------ claims
\* C1: in the list and in every kanban column the cursor is an in-range
\* position holding a task item whenever the item sequence has a task item,
\* and is 0 when the sequence is empty (after SetTasks, SetFilter, SetGroupBy,
\* CycleGroupBy, MoveUp and MoveDown, that is in every reachable state).
C1_CursorInvariant ==
    /\ CursorOnTask(litems, lcursor)
    /\ \A c \in 0..3 : CursorOnTask(kcolumns[c].items, kcolumns[c].cursor)

\* the list cursor below two headers and a kanban cursor below two headers
C1_Witness ==
    /\ Cardinality(HeaderPositions(litems)) >= 2
    /\ lcursor > MaxOf(HeaderPositions(litems))
    /\ \E c \in 0..3 :
          /\ Cardinality(HeaderPositions(kcolumns[c].items)) >= 2
          /\ kcolumns[c].cursor > MaxOf(HeaderPositions(kcolumns[c].items))

\* C2: MoveUp on the topmost task item and MoveDown on the bottommost task
\* item leave the cursor unchanged; otherwise they move the cursor to the
\* nearest task item in that direction, skipping headers (list and the
\* active kanban column, every grouping mode).
C2_CursorBoundaries ==
    [][/\ ListMoveUp => lcursor' = NearestTaskAbove(litems, lcursor)
       /\ ListMoveDown => lcursor' = NearestTaskBelow(litems, lcursor)
       /\ KanbanMoveUp =>
            kcolumns'[activeCol].cursor =
                NearestTaskAbove(kcolumns[activeCol].items, kcolumns[activeCol].cursor)
       /\ KanbanMoveDown =>
            kcolumns'[activeCol].cursor =
                NearestTaskBelow(kcolumns[activeCol].items, kcolumns[activeCol].cursor)]_vars

\* both cursors on the bottommost task item, reached across a header
C2_Witness ==
    /\ Cardinality(HeaderPositions(litems)) >= 2
    /\ lcursor = Len(litems) - 1
    /\ litems[lcursor].isHeader
    /\ LET col == kcolumns[activeCol]
       IN  /\ Cardinality(HeaderPositions(col.items)) >= 2
           /\ col.cursor = Len(col.items) - 1
           /\ col.items[col.cursor].isHeader

\* C3: the active column stays in 0..3; MoveLeft at column 0 and MoveRight at
\* column 3 change nothing, elsewhere they change the index by exactly one.
C3_ActiveColumn ==
    /\ [](activeCol \in 0..3)
    /\ [][/\ MoveLeft => activeCol' = IF activeCol = 0 THEN 0 ELSE activeCol - 1
          /\ MoveRight => activeCol' = IF activeCol = 3 THEN 3 ELSE activeCol + 1]_vars

\* the last column is active in the kanban view
C3_Witness == activeCol = 3 /\ viewMode = ViewKanban

\* ------------------------------------------- claims: organizer helpers
\* the task passes the filter: the filter is empty or is a substring of the
\* lower-cased title, description or some tag
PassesFilter(task, filter) ==
    \/ filter = <<>>
    \/ \E field \in {task.title, task.description} \cup {task.tags[t] : t \in 1..Len(task.tags)} :
          Contains(ToLower(field), filter)

\* the indices of the tasks of the list that pass its filter
PassingIndices == {i \in 0..(Len(ltasks) - 1) : PassesFilter(ltasks[i + 1], lfilter)}

\* the task indices of the task items, in the order of the items
TaskIndexSeq(items) ==
    LET taskItems == SelectSeq(items, LAMBDA it : ~it.isHeader)
    IN  [n \in 1..Len(taskItems) |-> taskItems[n].taskIndex]

SeqRange(q) == {q[n] : n \in 1..Len(q)}

\* the task items name every index of S, each exactly once
ExactlyOnce(items, S) ==
    /\ SeqRange(TaskIndexSeq(items)) = S
    /\ Len(TaskIndexSeq(items)) = Cardinality(S)

StrictlyAscending(q) == \A n \in 1..(Len(q) - 1) : q[n] < q[n + 1]

\* the members of the group of the header at position h: the task indices
\* of the task items between h and the next header
GroupMembers(items, h) ==
    LET later == {g \in HeaderPositions(items) : g > h}
        stop == IF later = {} THEN Len(items) ELSE MinOf(later)
    IN  [n \in 1..(stop - h - 1) |-> items[h + n + 1].taskIndex]

\* the header positions, ascending
HeaderSeq(items) ==
    SelectSeq(Positions(Len(items)), LAMBDA i : items[i + 1].isHeader)

EnumPosition(enum, v) == CHOOSE i \in 1..Len(enum) : enum[i] = v

DigitText == <<"0", "1", "2", "3", "4", "5", "6", "7", "8", "9">>

\* " (n)" for a count below ten
CountSuffix(n) == <<" ", "(", DigitText[n + 1], ")">>

\* every header is immediately followed by a task item
HeadersHaveMembers(items) ==
    \A h \in HeaderPositions(items) : h + 1 \in TaskPositions(items)

\* The groups of items follow the order of enum: every group has a first
\* member, all its members have the value of the first, its header reads
\* label(value) followed by suffix(size), and the values of successive
\* groups ascend in enum.  valueOf gives the value of a task index.
GroupsInEnumOrder(items, enum, valueOf(_), label(_), suffix(_)) ==
    LET hs == HeaderSeq(items)
        valueAt(n) == valueOf(GroupMembers(items, hs[n])[1])
    IN  /\ Len(items) > 0 => items[1].isHeader
        /\ \A n \in 1..Len(hs) :
              LET members == GroupMembers(items, hs[n])
              IN  /\ Len(members) >= 1
                  /\ \A m \in 1..Len(members) : valueOf(members[m]) = valueAt(n)
                  /\ StrictlyAscending(members)
                  /\ items[hs[n] + 1].headerText = label(valueAt(n)) \o suffix(Len(members))
        /\ \A n \in 1..(Len(hs) - 1) :
              EnumPosition(enum, valueAt(n)) < EnumPosition(enum, valueAt(n + 1))

NoSuffix(n) == <<>>

\* ---------------------------------------------------- claims: organizer
\* C4: under grouping None the list's items are exactly the tasks that pass
\* the filter (empty filter, or the lower-cased filter is a substring of the
\* lower-cased title, description or some tag), in collection order, with no
\* header; every task left out matches in none of the three fields.
C4_FilterPredicate ==
    lgroupBy = GroupByNone =>
        /\ HeaderPositions(litems) = {}
        /\ StrictlyAscending(TaskIndexSeq(litems))
        /\ SeqRange(TaskIndexSeq(litems)) = PassingIndices
        /\ lfilter = ToLower(lfilter)

\* a non-empty filter that keeps some tasks, one of them through a tag only,
\* and leaves one out
C4_Witness ==
    /\ lgroupBy = GroupByNone
    /\ lfilter # <<>>
    /\ Len(litems) >= 2
    /\ Len(litems) < Len(ltasks)
    /\ \E n \in 1..Len(litems) :
          LET task == ltasks[litems[n].taskIndex + 1]
          IN  /\ ~Contains(ToLower(task.title), lfilter)
              /\ ~Contains(ToLower(task.description), lfilter)

\* C5: under every grouping mode other than None the task items of the list,
\* taken in order across all groups, name every task that passes the filter
\* exactly once, and the task items of a kanban column name every task of
\* the column exactly once.
C5_GroupingPartition ==
    /\ lgroupBy # GroupByNone => ExactlyOnce(litems, PassingIndices)
    /\ kgroupBy # GroupByNone =>
          \A c \in 0..3 : ExactlyOnce(kcolumns[c].items, SeqRange(kcolumns[c].tasks))

\* a filtered list in two tag groups, one of them with two members, and a
\* kanban column in two groups
C5_Witness ==
    /\ lgroupBy = GroupByTag
    /\ lfilter # <<>>
    /\ Cardinality(HeaderPositions(litems)) = 2
    /\ Len(litems) = 5
    /\ kgroupBy \in {GroupByPriority, GroupByTag}
    /\ \E c \in 0..3 : Cardinality(HeaderPositions(kcolumns[c].items)) = 2

\* C6: under ByStatus (list) and ByPriority (list and kanban columns) the
\* groups appear in the fixed enum order restricted to the groups that have a
\* member, every header is immediately followed by a task item, and the list
\* header reads "<label> (<count>)" with count the number of task items of
\* its group.
C6_EnumOrderAndCounts ==
    /\ HeadersHaveMembers(litems)
    /\ \A c \in 0..3 : HeadersHaveMembers(kcolumns[c].items)
    /\ lgroupBy = GroupByStatus =>
          GroupsInEnumOrder(litems, AllStatuses, LAMBDA i : ltasks[i + 1].status,
                            StatusLabel, CountSuffix)
    /\ lgroupBy = GroupByPriority =>
          GroupsInEnumOrder(litems, AllPriorities, LAMBDA i : ltasks[i + 1].priority,
                            PriorityLabel, CountSuffix)
    /\ kgroupBy = GroupByPriority =>
          \A c \in 0..3 :
              GroupsInEnumOrder(kcolumns[c].items, AllPriorities,
                                LAMBDA i : ktasks[i + 1].priority, PriorityLabel, NoSuffix)

\* three tasks with statuses Todo, Todo, Done shown by status as
\* Header(2), Task, Task, Header(1), Task, and a kanban column whose priority
\* groups are in enum order against the collection order
C6_Witness ==
    /\ lgroupBy = GroupByStatus
    /\ lfilter = <<>>
    /\ [i \in 1..Len(ltasks) |-> ltasks[i].status] = <<StatusTodo, StatusTodo, StatusDone>>
    /\ litems = <<HeaderItem(<<"À", " ", "f", "a", "i", "r", "e", " ", "(", "2", ")">>),
                  TaskItem(0), TaskItem(1),
                  HeaderItem(<<"T", "e", "r", "m", "i", "n", "é", " ", "(", "1", ")">>),
                  TaskItem(2)>>
    /\ kgroupBy = GroupByPriority
    /\ TaskIndexSeq(kcolumns[0].items) = <<1, 0>>

\* C7: under ByTag every task is in exactly one group; two tasks share a
\* group exactly when they have the same first tag or both have no tag (the
\* tasks without tags form one separate group); the groups are in the order
\* in which they are first met in collection order and keep collection order
\* inside.
C7_ByTagGroups ==
    lgroupBy = GroupByTag =>
        LET hs == HeaderSeq(litems)
            sameKey(i, j) ==
                LET ti == ltasks[i + 1].tags
                    tj == ltasks[j + 1].tags
                IN  IF Len(ti) = 0 \/ Len(tj) = 0 THEN Len(ti) = 0 /\ Len(tj) = 0
                    ELSE ti[1] = tj[1]
        IN  /\ ExactlyOnce(litems, PassingIndices)
            /\ \A n \in 1..Len(hs) :
                  LET members == GroupMembers(litems, hs[n])
                  IN  /\ Len(members) >= 1
                      /\ StrictlyAscending(members)
                      /\ \A a, b \in 1..Len(members) : sameKey(members[a], members[b])
            /\ \A n, k \in 1..Len(hs) :
                  n < k =>
                     /\ GroupMembers(litems, hs[n])[1] < GroupMembers(litems, hs[k])[1]
                     /\ ~sameKey(GroupMembers(litems, hs[n])[1], GroupMembers(litems, hs[k])[1])

\* C8: re-running the organizer on an unchanged collection, filter and
\* grouping mode (SetTasks with the same collection, SetGroupBy with the same
\* mode) yields the item sequences the views already hold and leaves every
\* cursor where it is: the state is a fixed point of the rebuild.
C8_OrganizeDeterministic ==
    /\ lfiltered = applyFilter(ltasks, lfilter)
    /\ litems = organizeItems(ltasks, lfiltered, lgroupBy)
    /\ lcursor = adjustCursor(litems, lcursor)
    /\ \A c \in 0..3 :
          /\ kcolumns[c].tasks = organizeTasks(ktasks)[c]
          /\ kcolumns[c].items = organizeColumnItems(ktasks, kcolumns[c].tasks, kgroupBy)
          /\ kcolumns[c].cursor = adjustColumnCursor(kcolumns[c].items, kcolumns[c].cursor)

\* grouped items in both views with both cursors moved off the first task
C8_Witness ==
    /\ HeaderPositions(litems) # {}
    /\ lcursor > MinOf(TaskPositions(litems))
    /\ \E c \in 0..3 :
          /\ HeaderPositions(kcolumns[c].items) # {}
          /\ kcolumns[c].cursor > MinOf(TaskPositions(kcolumns[c].items))

\* C9: in a kanban column grouping mode ByStatus gives what grouping mode
\* None gives: one task item per task of the column, in collection order,
\* and no header.
C9_StatusGroupingSuppressed ==
    kgroupBy \in {GroupByNone, GroupByStatus} =>
        \A c \in 0..3 :
            /\ kcolumns[c].items = [n \in 1..Len(kcolumns[c].tasks) |-> TaskItem(kcolumns[c].tasks[n])]
            /\ StrictlyAscending(kcolumns[c].tasks)

\* a column of two tasks shown under ByStatus
C9_Witness ==
    /\ kgroupBy = GroupByStatus
    /\ \E c \in 0..3 : Len(kcolumns[c].items) >= 2

\* C10: after a task-collection refresh kanban column c holds exactly the
\* tasks that pass the current filter and have the status of column c, in
\* collection order.
C10_ColumnsHoldFilteredTasks ==
    [][TasksLoaded =>
          \A c \in 0..3 :
              kcolumns'[c].tasks =
                  SelectSeq(Positions(Len(tasks')),
                            LAMBDA i : /\ PassesFilter(tasks'[i + 1], lfilter')
                                       /\ tasks'[i + 1].status = AllStatuses[c + 1])]_vars

\* ------------------------------------------------------ claims: the App
\* the index of the task under the cursor of the active column, -1 when the
\* cursor is on no task item
BoardSelected ==
    LET col == kcolumns[activeCol]
    IN  IF col.cursor \in TaskPositions(col.items)
        THEN col.items[col.cursor + 1].taskIndex
        ELSE -1

\* the commands issued by the step, in order
IssuedByStep(old, new) == SubSeq(new, Len(old) + 1, Len(new))

\* C11: on the board MoveTaskLeft returns none at column 0 or without a
\* selected task, MoveTaskRight at column 3 or without a selected task, and
\* then no command is issued; otherwise exactly one update command is issued,
\* for the selected task with its status set to the status of the column at
\* activeCol - 1 (resp. activeCol + 1).
C11_MoveTaskCommand ==
    [][/\ (KeyMoveTaskLeft /\ viewMode = ViewKanban) =>
            IF activeCol = 0 \/ BoardSelected = -1
            THEN cmds' = cmds
            ELSE /\ Len(cmds') = Len(cmds) + 1
                 /\ cmds'[Len(cmds')].op = "UpdateTask"
                 /\ cmds'[Len(cmds')].task =
                       [ktasks[BoardSelected + 1] EXCEPT !.status = kcolumns[activeCol - 1].status]
       /\ (KeyMoveTaskRight /\ viewMode = ViewKanban) =>
            IF activeCol = 3 \/ BoardSelected = -1
            THEN cmds' = cmds
            ELSE /\ Len(cmds') = Len(cmds) + 1
                 /\ cmds'[Len(cmds')].op = "UpdateTask"
                 /\ cmds'[Len(cmds')].task =
                       [ktasks[BoardSelected + 1] EXCEPT !.status = kcolumns[activeCol + 1].status]]_vars

\* the task stored as Todo is selected in the last column, where it came by
\* moves to the right and the round trips of their update commands
C11_Witness ==
    /\ viewMode = ViewKanban
    /\ activeCol = 3
    /\ BoardSelected # -1
    /\ ktasks[BoardSelected + 1].id = 2
    /\ file = ktasks
    /\ InFlight = 0

\* C12: MoveTaskLeft and MoveTaskRight leave the active column, every
\* column's cursor, membership and item sequence as they are; membership and
\* items change only when a repository result is applied, and then every
\* column holds exactly the tasks of its status.
C12_MoveTaskFrame ==
    [][/\ (KeyMoveTaskLeft \/ KeyMoveTaskRight) => UNCHANGED <<activeCol, kcolumns>>
       /\ (\E c \in 0..3 : \/ kcolumns'[c].tasks # kcolumns[c].tasks
                           \/ kcolumns'[c].items # kcolumns[c].items) => UpdateTasksLoaded
       /\ UpdateTasksLoaded =>
            \A c \in 0..3 :
                SeqRange(kcolumns'[c].tasks) =
                    {i \in 0..(Len(ktasks') - 1) : ktasks'[i + 1].status = kcolumns'[c].status}]_vars

\* a task was moved and the result is not applied yet: it is still a member
\* of the column it came from
C12_Witness ==
    /\ viewMode = ViewKanban
    /\ InFlight > 0
    /\ \E c \in 0..3 : \E n \in 1..Len(kcolumns[c].tasks) :
          /\ ktasks[kcolumns[c].tasks[n] + 1].status # kcolumns[c].status
          /\ kcolumns[c].cursor = n - 1

\* the three references to the task collection
collections == <<tasks, ltasks, ktasks>>

\* C13: the key events never change the in-memory collection themselves:
\* the cycle-priority key, the quick status keys, the move-task keys and the
\* tag toggle leave the collection of the App and of both views as it is, and
\* the collection changes only when a tasks-loaded result is applied.
C13_NoDirectMutation ==
    [][/\ (KeyPriority \/ KeyStatus \/ KeyMoveTaskLeft \/ KeyMoveTaskRight \/ TagInputEnter)
            => UNCHANGED collections
       /\ collections' # collections => UpdateTasksLoaded]_vars

\* C14: when the error of a load or update command is handled, the status
\* message shows the error, the collection is the one the App held before the
\* command was issued, the item sequences, the cursors and the interaction
\* state are untouched, and no command is issued.
C14_ErrorLeavesCollection ==
    [][UpdateErr =>
          /\ message' = "Erreur"
          /\ tasks' = Head(inbox).cmd.issuedOn
          /\ ltasks' = tasks'
          /\ ktasks' = tasks'
          /\ UNCHANGED <<litems, lcursor, kcolumns, activeCol, state>>
          /\ cmds' = cmds]_vars

\* C15: whenever nothing is in flight and the views show a loaded collection,
\* that collection is the one the file holds.
C15_ViewsMatchFile ==
    (InFlight = 0 /\ tasks # <<>>) => (tasks = file /\ ltasks = file /\ ktasks = file)

\* the indices of the tasks of ts with status st, ascending
StatusIndices(ts, st) == SelectSeq(Positions(Len(ts)), LAMBDA i : ts[i + 1].status = st)

\* C16: the App, the list and the board hold the same collection in every
\* reachable state, and when a repository result is applied it becomes the
\* collection of all three, the list shows the tasks passing the filter in
\* collection order, every column shows the tasks of its status in collection
\* order, and every cursor is on a task item (0 without items).
C16_SameSnapshot ==
    /\ [](tasks = ltasks /\ tasks = ktasks)
    /\ [][UpdateTasksLoaded =>
            /\ tasks' = Head(inbox).tasks
            /\ ltasks' = tasks'
            /\ ktasks' = tasks'
            /\ litems' = [n \in 1..Len(lfiltered') |-> TaskItem(lfiltered'[n])]
            /\ lfiltered' = SelectSeq(Positions(Len(tasks')),
                                      LAMBDA i : PassesFilter(tasks'[i + 1], lfilter'))
            /\ CursorOnTask(litems', lcursor')
            /\ \A c \in 0..3 :
                  /\ kcolumns'[c].tasks = StatusIndices(tasks', kcolumns'[c].status)
                  /\ kcolumns'[c].items =
                        [n \in 1..Len(kcolumns'[c].tasks) |-> TaskItem(kcolumns'[c].tasks[n])]
                  /\ CursorOnTask(kcolumns'[c].items, kcolumns'[c].cursor)]_vars

\* a status written through the pointer has made its round trip: the three
\* references hold the stored collection and the board shows the task in the
\* column of its new status
C16_Witness ==
    /\ InFlight = 0
    /\ Len(tasks) >= 1
    /\ tasks = file
    /\ tasks[1].status = StatusInProgress
    /\ kcolumns[1].tasks = <<0>>
    /\ kcolumns[0].tasks = <<>>

\* C17: a quit key ends the program if and only if the state is Normal: every
\* step that sets quit starts in StateNormal, in StateNormal the quit key is
\* always taken, and in the five other states no step sets quit.
C17_QuitOnlyInNormal ==
    /\ [][quit' # quit => (state = StateNormal /\ quit' /\ KeyQuit)]_vars
    /\ []((~quit /\ state = StateNormal) => ENABLED KeyQuit)
    /\ []((~quit /\ state # StateNormal) => ~ENABLED KeyQuit)

\* "q" was typed into the tag input, where it did not quit, and then, back in
\* StateNormal, a quit key quit
C17_Witness == quit /\ state = StateNormal /\ tagInput = <<"q">>

\* the command a step issues, if it is a deletion
IssuesDelete ==
    /\ Len(cmds') = Len(cmds) + 1
    /\ cmds'[Len(cmds')].op = "DeleteTask"

\* C18: a delete command is issued only by y/Y in StateConfirmDelete;
\* StateConfirmDelete is entered only by the delete key in StateNormal with a
\* selected task; n/N/esc return to StateNormal with no command and the same
\* collection; the state is left only by those keys.
C18_ConfirmDelete ==
    /\ [][IssuesDelete => (state = StateConfirmDelete /\ ConfirmYes)]_vars
    /\ [][(state # StateConfirmDelete /\ state' = StateConfirmDelete)
            => (state = StateNormal /\ selectedIndex # -1 /\ KeyDelete)]_vars
    /\ [][ConfirmNo => (state' = StateNormal /\ cmds' = cmds
                          /\ UNCHANGED <<collections, file, inbox>>)]_vars
    /\ [][(state = StateConfirmDelete /\ state' # StateConfirmDelete)
            => (ConfirmYes \/ ConfirmNo)]_vars

\* y in StateConfirmDelete has issued the deletion of the selected task and
\* returned to StateNormal
C18_Witness ==
    /\ state = StateNormal
    /\ cmds # <<>>
    /\ cmds[Len(cmds)].op = "DeleteTask"
    /\ cmds[Len(cmds)].id = tasks[1].id

\* a string with no character besides spaces, the empty one included
OnlySpaces(str) == \A i \in 1..Len(str) : str[i] = " "

\* C19: enter with the focus on Submit: while the title is empty or only
\* spaces the state stays StateForm, no command is issued and nothing is added
\* to the collection or the file; otherwise exactly one command is issued,
\* AddTask in create mode and UpdateTask in edit mode, with the title of the
\* form, and the state is StateNormal.
C19_SubmitNeedsTitle ==
    [][(FormEnter /\ taskForm.focusedField = FieldSubmit) =>
          IF OnlySpaces(taskForm.titleInput)
          THEN /\ state' = StateForm
               /\ cmds' = cmds
               /\ UNCHANGED <<collections, file, inbox>>
          ELSE /\ state' = StateNormal
               /\ SubSeq(cmds', 1, Len(cmds)) = cmds
               /\ Len(IssuedByStep(cmds, cmds')) = 1
               /\ IssuedByStep(cmds, cmds')[1].op =
                     (IF taskForm.isNew THEN "AddTask" ELSE "UpdateTask")
               /\ IssuedByStep(cmds, cmds')[1].task.title = taskForm.titleInput
               /\ UNCHANGED <<collections, file, inbox>>]_vars

\* a task created by the form is in the file, and the form, opened again in
\* create mode, stands on Submit with a title of one space
C19_Witness ==
    /\ state = StateForm
    /\ taskForm.isNew
    /\ taskForm.focusedField = FieldSubmit
    /\ taskForm.titleInput = <<" ">>
    /\ \E i \in 1..Len(file) : file[i].id \notin IdsOf(StoredTasks)

\* a tag list with no empty string and no string twice
TagsWellFormed(tags) ==
    /\ \A i \in 1..Len(tags) : tags[i] # <<>>
    /\ \A i, j \in 1..Len(tags) : tags[i] = tags[j] => i = j

\* C20: every task an AddTask or UpdateTask command carries to the repository
\* has a non-empty title and a tag list with no duplicate and no empty string.
C20_TaskDataInvariant ==
    \A i \in 1..Len(cmds) :
        cmds[i].op \in {"AddTask", "UpdateTask"} =>
            /\ cmds[i].task.title # <<>>
            /\ TagsWellFormed(cmds[i].task.tags)

\* the identifier and the creation time of a task
Identity(task) == <<task.id, task.createdAt>>

\* C21: every UpdateTask command carries the identifier and the creation time
\* of the selected task (of the task the form was opened on, which was the
\* selected one); an AddTask command is issued only from a form in create mode;
\* and no task of the file ever changes its creation time.
C21_IdentityKept ==
    /\ [][\A i \in 1..Len(IssuedByStep(cmds, cmds')) :
            LET cmd == IssuedByStep(cmds, cmds')[i]
            IN  /\ cmd.op = "UpdateTask" =>
                      IF state = StateForm
                      THEN ~taskForm.isNew /\ Identity(cmd.task) = Identity(taskForm.task)
                      ELSE selectedIndex # -1
                             /\ Identity(cmd.task) = Identity(selectedTask)
                /\ cmd.op = "AddTask" => (state = StateForm /\ taskForm.isNew)]_vars
    /\ [][(state # StateForm /\ state' = StateForm /\ ~taskForm'.isNew)
            => (selectedIndex # -1 /\ taskForm'.task = selectedTask)]_vars
    /\ [][\A i \in 1..Len(file) : \A j \in 1..Len(file') :
            file[i].id = file'[j].id => file[i].createdAt = file'[j].createdAt]_vars

\* the stored task has been rewritten by the keys and by the form and is still
\* the task created at its first time
C21_Witness ==
    /\ InFlight = 0
    /\ file # <<>>
    /\ Identity(file[1]) = <<2, 1>>
    /\ file[1].title # <<"b">> \/ file[1].tags = <<>>
    /\ file[1].priority # PriorityHigh
    /\ file[1].status # StatusTodo
    /\ taskForm.task # NoTask
    /\ taskForm.task.priority # PriorityHigh

\* the step issues exactly the command cmd
IssuesOnly(op, task) ==
    /\ SubSeq(cmds', 1, Len(cmds)) = cmds
    /\ Len(IssuedByStep(cmds, cmds')) = 1
    /\ IssuedByStep(cmds, cmds')[1].op = op
    /\ IssuedByStep(cmds, cmds')[1].task = task

\* the priority after p on the cycle Low, Medium, High, Critical, Low
CycleOrder == <<PriorityLow, PriorityMedium, PriorityHigh, PriorityCritical, PriorityLow>>

CycleSucc(p) == CycleOrder[1 + CHOOSE i \in 1..4 : CycleOrder[i] = p]

\* C22: the priority key issues one UpdateTask for the selected task with the
\* next priority of the cycle Low, Medium, High, Critical, Low and nothing else
\* changed, and issues nothing without a selected task; four steps along the
\* cycle lead back to the priority they started from.
C22_PriorityCycle ==
    /\ [][KeyPriority =>
            IF selectedIndex = -1
            THEN cmds' = cmds
            ELSE /\ IssuesOnly("UpdateTask",
                       [selectedTask EXCEPT !.priority = CycleSucc(selectedTask.priority)])
                 /\ state' = StateNormal]_vars
    /\ [](\A p \in {PriorityLow, PriorityMedium, PriorityHigh, PriorityCritical} :
            PriorityNext(PriorityNext(PriorityNext(PriorityNext(p)))) = p)

\* the task stored with priority High is stored with priority Low: two presses,
\* the second across the end of the cycle
C22_Witness ==
    /\ InFlight = 0
    /\ file # <<>>
    /\ file[1].id = 2
    /\ file[1].priority = PriorityLow
    /\ tasks = file

\* the status each quick status key stands for, keys 1 to 4
QuickStatus == <<StatusTodo, StatusInProgress, StatusBlocked, StatusDone>>

\* C23: the quick status key i, with a task selected, issues one UpdateTask
\* for that task with the i-th status (Todo, InProgress, Blocked, Done) and
\* every other field as it was; with no task selected it issues nothing; the
\* state stays StateNormal.
C23_QuickStatus ==
    [][\A i \in 0..3 :
         (InNormal /\ setTaskStatus(StatusFromIndex(i))) =>
            /\ state' = StateNormal
            /\ IF selectedIndex = -1
               THEN cmds' = cmds
               ELSE IssuesOnly("UpdateTask",
                               [selectedTask EXCEPT !.status = QuickStatus[i + 1]])]_vars

\* in the list view key 3 was pressed on the task in Todo: the command
\* carries Blocked
C23_Witness ==
    /\ viewMode = ViewList
    /\ cmds # <<>>
    /\ cmds[1].op = "UpdateTask"
    /\ cmds[1].task.status = StatusBlocked
    /\ cmds[1].issuedOn # <<>>
    /\ cmds[1].issuedOn[1].status = StatusTodo
    /\ cmds[1].task = [cmds[1].issuedOn[1] EXCEPT !.status = StatusBlocked]

\* tag is one of tags
HasTag(tags, tag) == \E i \in 1..Len(tags) : tags[i] = tag

\* C24: enter in the tag input with an input that is not blank and a selected
\* task issues one UpdateTask whose tag list is the task's without the tag,
\* the others in their order, when the task had it, and the task's with the tag
\* at the end when it had not; the state is StateNormal afterwards.  Enter on a
\* blank input and esc lead to StateNormal with no command and the collection
\* as it was.  StateTagInput is entered only with a task selected.
C24_TagToggle ==
    /\ [][TagInputEnter =>
            /\ state' = StateNormal
            /\ IF OnlySpaces(tagInput) \/ selectedIndex = -1
               THEN cmds' = cmds /\ UNCHANGED collections
               ELSE LET tag == TrimSpace(tagInput)
                        old == selectedTask.tags
                        new == IssuedByStep(cmds, cmds')[1].task.tags
                    IN  /\ IssuesOnly("UpdateTask", [selectedTask EXCEPT !.tags = new])
                        /\ IF HasTag(old, tag)
                           THEN /\ ~HasTag(new, tag)
                                /\ new = SelectSeq(old, LAMBDA t : t # tag)
                           ELSE new = old \o <<tag>>]_vars
    /\ [][TagInputEsc =>
            (state' = StateNormal /\ cmds' = cmds /\ UNCHANGED collections)]_vars
    /\ [][(state # StateTagInput /\ state' = StateTagInput)
            => (state = StateNormal /\ selectedIndex # -1)]_vars

\* the tag between two others was toggled off: the command carries the two
\* others in their order
C24_Witness ==
    /\ state = StateNormal
    /\ cmds # <<>>
    /\ cmds[1].op = "UpdateTask"
    /\ cmds[1].issuedOn # <<>>
    /\ Len(cmds[1].issuedOn[1].tags) = 3
    /\ cmds[1].task.tags = <<cmds[1].issuedOn[1].tags[1], cmds[1].issuedOn[1].tags[3]>>

\* C25: the search key in StateNormal enters StateSearch with the search text
\* empty and the filter of the list empty, the list organized under the empty
\* filter.
C25_SearchClearsFilter ==
    [][KeySearch =>
          /\ state' = StateSearch
          /\ searchInput' = <<>>
          /\ lfilter' = <<>>
          /\ lfiltered' = applyFilter(ltasks', <<>>)
          /\ litems' = organizeItems(ltasks', lfiltered', lgroupBy')]_vars

\* C26: esc in StateSearch empties the filter and returns to StateNormal;
\* enter returns to StateNormal with the filter as it is; another key changes
\* the search text, makes it the filter and puts the cursor on the first task
\* of the reorganized list; and whenever StateSearch is left the filter of the
\* list is the search text in lower case.
C26_SearchFilterFollowsText ==
    /\ [][SearchEsc => (state' = StateNormal /\ lfilter' = <<>>)]_vars
    /\ [][SearchEnter => (state' = StateNormal /\ lfilter' = lfilter)]_vars
    /\ [][\A k \in ModalKeys :
            SearchOther(k) =>
               /\ state' = StateSearch
               /\ lfilter' = ToLower(searchInput')
               /\ litems' = organizeItems(ltasks, applyFilter(ltasks, lfilter'), lgroupBy)
               /\ lcursor' = adjustCursor(litems', 0)]_vars
    /\ [][(state = StateSearch /\ state' # StateSearch)
            => lfilter' = ToLower(searchInput')]_vars

\* C27: the toggle-view key flips the view mode; on the way to the kanban with
\* a task selected in the list the active column becomes the column whose
\* status is that task's, with none selected the active column stays; on the
\* way to the list nothing but the view mode changes; no cursor moves either
\* way.
C27_ToggleViewSync ==
    [][ToggleView =>
          /\ viewMode' = (IF viewMode = ViewList THEN ViewKanban ELSE ViewList)
          /\ IF viewMode = ViewList /\ ListSelectedIndex # -1
             THEN kcolumns[activeCol'].status = ltasks[ListSelectedIndex + 1].status
             ELSE activeCol' = activeCol
          /\ UNCHANGED <<lcursor, litems, kcolumns>>]_vars

\* the kanban was entered from the list with the cursor on a task that is
\* Done: the last column is the active one
C27_Witness ==
    /\ viewMode = ViewKanban
    /\ ListSelectedIndex # -1
    /\ ltasks[ListSelectedIndex + 1].status = StatusDone
    /\ kcolumns[activeCol].status = StatusDone

\* the fields of the form in the order of the focus
FieldOrder ==
    <<FieldTitle, FieldDescription, FieldTags, FieldPriority, FieldStatus, FieldSubmit,
      FieldCancel>>

\* the place of a field in FieldOrder
FieldPos(field) == CHOOSE i \in 1..7 : FieldOrder[i] = field

\* C28: tab moves the focus to the next field of Title, Description, Tags,
\* Priority, Status, Submit, Cancel and from Cancel to Title; shift+tab to the
\* previous one and from Title to Cancel; tab then shift+tab is the identity,
\* seven tabs return to the field they started from; the form opens on Title.
C28_FocusCycle ==
    /\ [][FormOther("tab") =>
            taskForm'.focusedField = FieldOrder[(FieldPos(taskForm.focusedField) % 7) + 1]]_vars
    /\ [][FormOther("shift+tab") =>
            taskForm'.focusedField =
                FieldOrder[((FieldPos(taskForm.focusedField) + 5) % 7) + 1]]_vars
    /\ [](\A f \in 0..6 :
            /\ prevField(nextField(f)) = f
            /\ nextField(nextField(nextField(nextField(nextField(nextField(nextField(f)))))))
                 = f)
    /\ [][(state # StateForm /\ state' = StateForm)
            => taskForm'.focusedField = FieldTitle]_vars

\* the form opened on a task and shift+tab pressed once: the focus went from
\* Title round to Cancel
C28_Witness ==
    /\ state = StateForm
    /\ taskForm.task # NoTask
    /\ taskForm.focusedField = FieldCancel

\* C29: left and right in the form change the priority index when the focus
\* is on Priority and the status index when it is on Status, by one and never
\* out of 0..3, and change neither with the focus elsewhere; esc, and enter
\* with the focus on Cancel, lead to StateNormal with no command and the
\* collection and the file as they were.
C29_FormSteps ==
    /\ [](taskForm.priorityIdx \in 0..3 /\ taskForm.statusIdx \in 0..3)
    /\ [][\A k \in StepKeys :
            FormOther(k) =>
               LET d == IF k = "left" THEN -1 ELSE 1
                   Step(idx) == IF idx + d \in 0..3 THEN idx + d ELSE idx
               IN  /\ taskForm'.priorityIdx =
                        (IF taskForm.focusedField = FieldPriority
                         THEN Step(taskForm.priorityIdx) ELSE taskForm.priorityIdx)
                   /\ taskForm'.statusIdx =
                        (IF taskForm.focusedField = FieldStatus
                         THEN Step(taskForm.statusIdx) ELSE taskForm.statusIdx)]_vars
    /\ [][(FormEsc \/ (taskForm.focusedField = FieldCancel /\ FormEnter)) =>
            /\ state' = StateNormal
            /\ cmds' = cmds
            /\ UNCHANGED <<collections, file, inbox>>]_vars

\* the form was left without a commit after its priority was stepped down to
\* the first value and its status up to the last
C29_Witness ==
    /\ state = StateNormal
    /\ taskForm.task # NoTask
    /\ taskForm.priorityIdx = 0
    /\ taskForm.statusIdx = 3
    /\ tasks = file
    /\ file[1] = taskForm.task

\* C30: results are applied in the order of their delivery. A message leaves
\* the inbox only from its head and by being applied, and the collection of
\* the App and of both views is then its payload, whatever the order in which
\* the commands were issued; between two deliveries the collection changes
\* only by the write of the selected task that comes with a new command; a
\* command leaves the pending ones only by running, which puts its result at
\* the end of the inbox.
C30_LastDeliveredWins ==
    /\ [][inbox' # inbox =>
            \/ /\ inbox # <<>>
               /\ inbox' = Tail(inbox)
               /\ tasks' = Head(inbox).tasks
               /\ ltasks' = tasks'
               /\ ktasks' = tasks'
               /\ cmds' = cmds
            \/ /\ \E i \in 1..Len(cmds) :
                     /\ cmds' = RemoveAt(cmds, i - 1)
                     /\ inbox' = Append(inbox, tasksLoadedMsg(file', cmds[i]))
               /\ UNCHANGED collections]_vars
    /\ [][(inbox' = inbox /\ cmds' # cmds) =>
            /\ Len(cmds') = Len(cmds) + 1
            /\ SubSeq(cmds', 1, Len(cmds)) = cmds]_vars
    /\ [][(inbox' = inbox /\ tasks' # tasks) =>
            /\ Len(cmds') = Len(cmds) + 1
            /\ selectedIndex # -1
            /\ tasks' = writeTask(tasks, selectedIndex, cmds'[Len(cmds')].task)]_vars

\* both updates ran, the one issued second first; its result was delivered and
\* is what the App shows, and the result of the update issued first, with the
\* old status, waits to be delivered after it
C30_Witness ==
    /\ cmds = <<>>
    /\ Len(inbox) = 1
    /\ inbox[1].cmd.issuedOn = <<StoredTasks[1]>>
    /\ inbox[1].tasks[1].status = StoredTasks[1].status
    /\ tasks = <<[inbox[1].tasks[1] EXCEPT !.status = StatusDone]>>
    /\ kcolumns[3].tasks # <<>>

\* an editorClosedMsg waits in the inbox
EditorClosed == \E i \in 1..Len(inbox) : inbox[i].type = "editorClosedMsg"

\* a reload is among the commands to run
ReloadIssued == \E i \in 1..Len(cmds) : cmds[i].op = "Load"

\* C31: the step that handles an editorClosedMsg adds one reload to the
\* commands, with or without an error in the message; it sets the status
\* message when there is an error and leaves it otherwise; it leaves the
\* interaction state, the collection and the views alone; and an
\* editorClosedMsg in the inbox leads to a reload among the commands.
C31_EditorReload ==
    /\ [][(inbox # <<>> /\ Head(inbox).type = "editorClosedMsg" /\ inbox' = Tail(inbox)) =>
            /\ cmds' = Append(cmds, loadTasks)
            /\ message' = (IF Head(inbox).err
                           THEN "Erreur lors de l'ouverture de l'editeur" ELSE message)
            /\ UNCHANGED <<state, viewMode, collections>>]_vars
    /\ (EditorClosed ~> ReloadIssued)

\* the editor failed while the help was open: the error is the status
\* message, the reload waits to run and the help is still open
C31_Witness ==
    /\ state = StateHelp
    /\ message = "Erreur lors de l'ouverture de l'editeur"
    /\ inbox = <<>>
    /\ cmds = <<loadTasks>>
    /\ tasks # <<>>

\* the collection stored in the file before a call
Stored == IF file.kind = "yaml" THEN Unmarshal(file.docs) ELSE <<>>

\* the last call was op and returned a collection
Answered(op) ==
    /\ inbox # <<>>
    /\ inbox[1].type = "tasksLoadedMsg"
    /\ inbox[1].cmd.op = op

\* C32: when UpdateTask(t) returns a collection it has the length of the
\* stored one; every entry with another identifier is the stored entry; an
\* entry that differs from the stored one is t with the time of the call as
\* its update time, in the place of an entry with t's identifier; when some
\* stored entry has t's identifier the first such entry is replaced, when none
\* has the collection is the stored one; and the file holds what was returned.
C32_UpdateReplacesOne ==
    [][Answered("UpdateTask")' =>
          LET result == inbox'[1].tasks
              t == inbox'[1].cmd.task
              Stamped(e) == \E now \in Clock : e = [t EXCEPT !.updatedAt = now]
              matches == {i \in 1..Len(Stored) : Stored[i].id = t.id}
          IN  /\ Len(result) = Len(Stored)
              /\ \A i \in 1..Len(Stored) :
                    /\ Stored[i].id # t.id => result[i] = Stored[i]
                    /\ result[i] # Stored[i] => i \in matches /\ Stamped(result[i])
              /\ matches # {} => Stamped(result[MinOf(matches)])
              /\ matches = {} => result = Stored
              /\ file'.kind = "yaml"
              /\ Unmarshal(file'.docs) = result]_vars

\* the second of two stored tasks was updated: it has the new title and the
\* time of the call, the first is as it was
C32_Witness ==
    /\ Answered("UpdateTask")
    /\ Len(inbox[1].tasks) = 2
    /\ inbox[1].tasks[1].id = 4
    /\ inbox[1].tasks[1].updatedAt \notin Clock
    /\ inbox[1].tasks[2].id = 2
    /\ inbox[1].tasks[2].title = <<"d">>
    /\ inbox[1].tasks[2].updatedAt \in Clock

\* C33: when AddTask(t) returns a collection it is the stored one with t after
\* its last entry; when DeleteTask(id) returns a collection it has no entry
\* with the identifier, it is the stored one when no stored entry has it, and
\* the entries it keeps are the stored entries with another identifier in
\* their stored order; after either, Load returns no error and the collection
\* the call returned.
C33_AppendAndRemove ==
    /\ [][Answered("AddTask")' =>
            LET result == inbox'[1].tasks
            IN  /\ Len(result) = Len(Stored) + 1
                /\ SubSeq(result, 1, Len(Stored)) = Stored
                /\ result[Len(result)] = inbox'[1].cmd.task
                /\ ~Load(file').err
                /\ Load(file').tasks = result]_vars
    /\ [][Answered("DeleteTask")' =>
            LET result == inbox'[1].tasks
                id == inbox'[1].cmd.id
                kept == {i \in 1..Len(Stored) : Stored[i].id # id}
            IN  /\ \A i \in 1..Len(result) : result[i].id # id
                /\ Len(result) = Cardinality(kept)
                /\ \A i \in kept :
                      result[Cardinality({j \in kept : j <= i})] = Stored[i]
                /\ kept = 1..Len(Stored) => result = Stored
                /\ ~Load(file').err
                /\ Load(file').tasks = result]_vars

\* a task was added to a file of one task and then the first was deleted: the
\* added task is what the file holds
C33_Witness ==
    /\ Answered("DeleteTask")
    /\ inbox[1].cmd.id = 2
    /\ Len(inbox[1].tasks) = 1
    /\ inbox[1].tasks[1].id = 1
    /\ inbox[1].tasks[1].tags = <<>>
    /\ file.docs = <<MarshalTask(inbox[1].tasks[1])>>
    /\ "tags" \notin DOMAIN file.docs[1]

\* the last call returned an error
Failed(op) ==
    /\ inbox # <<>>
    /\ inbox[1].type = "errMsg"
    /\ inbox[1].cmd.op = op

\* C34: Load with no file answers a tasks-loaded message with the empty
\* collection; Load of a file that cannot be read or is no YAML answers an
\* error message without a collection; AddTask, UpdateTask and DeleteTask
\* answer an error message without a collection exactly when the file cannot
\* be read or is no YAML (their Load fails) or cannot be written (their Save
\* fails), and the file is then as it was.
C34_MissingFileIsEmpty ==
    /\ [][inbox' # inbox /\ inbox'[1].cmd.op = "Load" =>
            /\ file.kind = "missing" => inbox'[1] = tasksLoadedMsg(<<>>, loadTasks)
            /\ file.kind \in {"unreadable", "corrupt"} => inbox'[1] = errMsg(loadTasks)
            /\ file.kind = "yaml" => inbox'[1].type = "tasksLoadedMsg"
            /\ file' = file]_vars
    /\ [][inbox' # inbox /\ inbox'[1].cmd.op \in {"AddTask", "UpdateTask", "DeleteTask"} =>
            LET failing == file.kind \in {"unreadable", "corrupt"} \/ ~file.writable
            IN  /\ failing <=> inbox'[1].type = "errMsg"
                /\ failing => inbox'[1].tasks = <<>> /\ file' = file]_vars

\* there is no file and it cannot be made: Load answered the empty collection
\* and the AddTask after it answered an error
C34_Witness ==
    /\ Failed("AddTask")
    /\ file.kind = "missing"
    /\ ~file.writable
    /\ Load(file) = Returned(<<>>, FALSE, file)

\* C35: in the list and in the kanban SelectedIndex is -1 exactly when
\* SelectedTask is nil, which is the case exactly when there is no item or the
\* cursor is on a header; otherwise SelectedIndex is an index of the task
\* collection of the view and SelectedTask is the task at that index.
C35_SelectedAgree ==
    /\ (ListSelectedIndex = -1) <=> (ListSelectedTask = NoTask)
    /\ (ListSelectedIndex = -1) <=> (litems = <<>> \/ litems[lcursor + 1].isHeader)
    /\ ListSelectedIndex # -1 =>
          /\ ListSelectedIndex \in 0..(Len(ltasks) - 1)
          /\ ListSelectedTask = ltasks[ListSelectedIndex + 1]
    /\ (KanbanSelectedIndex = -1) <=> (KanbanSelectedTask = NoTask)
    /\ (KanbanSelectedIndex = -1) <=>
          \/ kcolumns[activeCol].items = <<>>
          \/ kcolumns[activeCol].items[kcolumns[activeCol].cursor + 1].isHeader
    /\ KanbanSelectedIndex # -1 =>
          /\ KanbanSelectedIndex \in 0..(Len(ktasks) - 1)
          /\ KanbanSelectedTask = ktasks[KanbanSelectedIndex + 1]

\* the list is grouped and filtered: the selected task is the third of the
\* collection while the cursor is on the second item; the active column of
\* the kanban is empty and nothing is selected there
C35_Witness ==
    /\ lgroupBy # GroupByNone
    /\ lfilter # <<>>
    /\ lcursor = 1
    /\ ListSelectedIndex = 2
    /\ ListSelectedTask = ltasks[3]
    /\ KanbanSelectedIndex = -1
    /\ ktasks # <<>>

\* C36: MoveUp and MoveDown of the kanban leave the active column index and
\* every column but the active one as they were, and change of the active
\* column at most its cursor; MoveLeft and MoveRight leave the four columns
\* with their cursors as they were and change at most the active column
\* index.
C36_KanbanNavFrame ==
    /\ [][(KanbanMoveUp \/ KanbanMoveDown) =>
            /\ activeCol' = activeCol
            /\ \A c \in 0..3 :
                  IF c = activeCol
                  THEN kcolumns'[c] = [kcolumns[c] EXCEPT !.cursor = kcolumns'[c].cursor]
                  ELSE kcolumns'[c] = kcolumns[c]
            /\ UNCHANGED <<ktasks, kgroupBy>>]_vars
    /\ [][(MoveLeft \/ MoveRight) =>
            /\ kcolumns' = kcolumns
            /\ UNCHANGED <<ktasks, kgroupBy>>]_vars

\* the cursor of the first column was moved down and the third column made
\* the active one: the first column kept its cursor, the third has its own
C36_Witness ==
    /\ activeCol = 2
    /\ kcolumns[0].cursor = 1
    /\ ~kcolumns[0].items[1].isHeader
    /\ kcolumns[2].items # <<>>
    /\ kcolumns[2].cursor = 0

\* C37: in list view mode the left and right keys and the two move-task keys
\* change nothing: no command is issued and the cursors, the active column,
\* the state and the tasks are as they were.
C37_KanbanKeysInListView ==
    [][(viewMode = ViewList
          /\ (KeyLeft \/ KeyRight \/ KeyMoveTaskLeft \/ KeyMoveTaskRight))
         => UNCHANGED vars]_vars

\* the list is shown while the kanban has a task selected in a column that
\* has a column on either side, and no command is in flight: each of the four
\* keys would act in the kanban
C37_Witness ==
    /\ viewMode = ViewList
    /\ state = StateNormal
    /\ activeCol \in 1..2
    /\ KanbanSelectedIndex # -1
    /\ cmds = <<>>
    /\ inbox = <<>>

\* C38: while the delete confirmation or the tag input is open the selected
\* task stays the one it was opened on, whatever is delivered meanwhile, and
\* the delete command of the affirmative key and the update of the confirm
\* key carry the identifier of the selected task: the commit acts on the task
\* the modal was opened on.
C38_ModalTargetStable ==
    /\ [][(state \in {StateConfirmDelete, StateTagInput} /\ state' = state)
            => selectedTask'.id = selectedTask.id]_vars
    /\ [][(ConfirmYes /\ cmds' # cmds) =>
            cmds'[Len(cmds')] = deleteTask(selectedTask.id)]_vars
    /\ [][(TagInputEnter /\ cmds' # cmds) =>
            /\ cmds'[Len(cmds')].op = "UpdateTask"
            /\ cmds'[Len(cmds')].task.id = selectedTask.id]_vars

\* C39: no update is lost in the file. The step in which an update command
\* completes changes, in the stored collection, only the task of that
\* command, so every update saved before it is still in the file and once
\* two updates of two tasks have both completed the file has both.
C39_NoLostUpdate ==
    [][(Len(inbox') = Len(inbox) + 1 /\ inbox'[Len(inbox')].cmd.op = "UpdateTask") =>
          /\ Len(file') = Len(file)
          /\ \A j \in 1..Len(file) :
                file[j].id # inbox'[Len(inbox')].cmd.task.id => file'[j] = file[j]]_vars

\* a step of a key: no command runs and no message is delivered
KeyStep == inbox' = inbox /\ file' = file /\ Len(cmds') >= Len(cmds)

\* the cursors of the four kanban columns
KanbanCursors == [c \in 0..3 |-> kcolumns[c].cursor]

\* C40: in the states Form, Help, Search, ConfirmDelete and TagInput a key
\* changes neither the view mode nor the active column nor a kanban cursor
\* and, unless it is the commit of the modal, issues no command; in Help a
\* key either changes nothing or is the help key, esc or q and changes the
\* state to StateNormal and nothing else.
C40_ModalIsolation ==
    /\ [][(state # StateNormal /\ KeyStep) =>
            /\ viewMode' = viewMode
            /\ activeCol' = activeCol
            /\ KanbanCursors' = KanbanCursors
            /\ cmds' # cmds => (ConfirmYes \/ TagInputEnter \/ FormEnter)]_vars
    /\ [][(state = StateHelp /\ KeyStep) =>
            /\ state' = StateNormal
            /\ HelpClose]_vars

\* the help is open over the kanban with a task selected in its second
\* column: in StateNormal each of the four keys would act
C40_Witness ==
    /\ state = StateHelp
    /\ viewMode = ViewKanban
    /\ activeCol = 1
    /\ KanbanSelectedIndex # -1
    /\ cmds = <<>>
    /\ inbox = <<>>

====
